---- MODULE Spec2Model ----
(***************************************************************************)
(* Download orchestration of tikcord: the DownloadManager queue/scheduler  *)
(* (services/downloadManager.js), the persistence rows it mirrors          *)
(* (services/persistenceService.js), the download:process handler of       *)
(* bot.js with the downloader's retry loop, and the memory guard's queue   *)
(* clear.                                                                  *)
(***************************************************************************)
EXTENDS Integers, Sequences, FiniteSets, TLC

\* ---- bounds of the model ----
MaxJobs == 3          \* tags that generateTag hands out
MaxConcurrent == 2    \* CONFIG.DOWNLOAD.MAX_CONCURRENT ranges over 1..MaxConcurrent
MAX_RETRIES == 2      \* CONFIG.DOWNLOAD.MAX_RETRIES (env-configured)
MAX_QUEUE_SIZE == 2   \* CONFIG.DOWNLOAD.MAX_QUEUE_SIZE (env-configured)
MaxRestarts == 1      \* process restarts (crash, emergency exit, shutdown)
MaxRecovered == 1     \* rows an earlier run left in the store (RecoverySpec)
MaxExecJobs == 2      \* links admitted in ExecSpec
MaxStderrJobs == 1    \* links admitted in StderrSpec
MaxChunks == 2        \* stderr 'data' events of one yt-dlp run
MaxPosts == 2         \* messages admitted in DedupSpec
MaxExponent == 5      \* retry counts the delay formula is evaluated for
MaxRestartJobs == 2    \* links admitted in RestartSpec
MaxGuardJobs == 2      \* links admitted in GuardSpec
MaxStrategyJobs == 1   \* links admitted in StrategySpec
MaxProgressJobs == 1   \* links admitted in ProgressSpec
MaxProbeJobs == 1      \* links admitted in ProbeSpec
MaxRehydrateJobs == 1  \* links admitted in RehydrateSpec

Tags == 1..(MaxRecovered + MaxJobs)

VARIABLES
  MAX_CONCURRENT,      \* CONFIG.DOWNLOAD.MAX_CONCURRENT, read once from the environment
  persistenceEnabled,  \* DownloadManager.persistenceEnabled
  queue,               \* DownloadManager.queue: sequence of tags (head = index 1)
  activeDownloads,     \* keys of DownloadManager.activeDownloads
  retryCount,          \* item.retryCount of the queue item with that tag
  message,             \* item.message is set (delivery context attached)
  store,               \* downloads table: tag -> [status, retries]
  isProcessing,        \* DownloadManager.isProcessing
  pausedForRecovery,   \* DownloadManager.pausedForRecovery
  queueProcessor,      \* position of the queueProcessor promise chain
  exec,                \* download:process handler per tag: stage, loop index, lastError
  retryTimers,         \* pending setTimeout re-insertions: [tag, delay]
  emitted,             \* lifecycle events emitted so far, per tag
  tagCount,            \* number of tags generated so far
  ret,                 \* value returned by the call made in the last step
  waitingBehind,       \* per tag awaiting a retry: the never-attempted tags that were
                       \* in the queue when it failed (history, for the retry order)
  resumeStage,         \* position of resumeFromPersistence in this process
  unresolved,          \* rehydrateMessages: items still to re-attach
  shutdownStage,       \* position of shutdown()
  restarts,            \* process starts after the first one
  syncFailing,         \* tags whose link the YouTube API client rejects before any I/O
  writeFails,          \* the store's statements throw (disk full, database locked)
  cleared,             \* tags that clearQueue removed from the queue (history)
  url,                 \* item.url of the queue item with that tag
  RAPIDAPI_KEY,        \* CONFIG.API.RAPIDAPI_KEY is set
  tempDir,             \* files in CONFIG.PATHS.TEMP_DIR: [tag, by, size, age]
  allStderr,           \* downloadVideo's allStderr of the running yt-dlp, per tag: chunks
  lastYtDlpError,      \* downloadVideo's lastYtDlpError of the running yt-dlp, per tag
  processingUrls,      \* BotState.processingUrls: [url, old]; old: set over 10 s ago
  invocations,         \* per tag: yt-dlp runs started in this process (history)
  lastStrategyError,   \* per job, the error of the strategy call that failed last
  lastProgress,        \* per job, lastProgress of the running downloadVideo call (tenths of 1%)
  forwarded,           \* per job, the values that call has handed to onProgress
  videoInfo,           \* per job, how that call's metadata probe ended and what it returned
  withoutIds,          \* tags whose row holds no channel_id or no message_id
  watched              \* what this run follows besides the scheduler: "tempDir", "invocations",
                       \* "lastStrategyError", "onProgress", "videoInfo"

vars == <<MAX_CONCURRENT, persistenceEnabled, queue, activeDownloads, retryCount,
          message, store, isProcessing, pausedForRecovery, queueProcessor, exec,
          retryTimers, emitted, tagCount, ret, waitingBehind, resumeStage,
          unresolved, shutdownStage, restarts, syncFailing, writeFails, cleared, url, RAPIDAPI_KEY, tempDir,
          allStderr, lastYtDlpError, processingUrls, invocations, lastStrategyError,
          lastProgress, forwarded, videoInfo, withoutIds, watched>>

\* ---- helpers on sequences ----
SeqToSet(s) == {s[i] : i \in 1..Len(s)}

RECURSIVE SeqFilterOut(_, _)
SeqFilterOut(s, t) ==
  IF s = <<>> THEN <<>>
  ELSE IF Head(s) = t THEN SeqFilterOut(Tail(s), t)
       ELSE <<Head(s)>> \o SeqFilterOut(Tail(s), t)

NoRow == [status |-> "absent", retries |-> 0]
NoError == [isPermanent |-> FALSE, text |-> {}]
\* result: result.platform of the downloader's result; via: the downloader it came from
Idle == [stage |-> "idle", i |-> 0, lastError |-> NoError, result |-> "none",
         via |-> "none"]
NoEvents == [added |-> 0, start |-> 0, complete |-> 0, error |-> 0]
NoVideoInfo == [probe |-> "none", uploader |-> "", url |-> "none"]

\* ---- links and their platforms ----
NoUrl == "none"
TwitterUrl == "x.com/user/status/1"
TikTokUrl == "tiktok.com/@user/video/1"
ShortsUrl == "youtube.com/shorts/abc"
InstagramUrl == "instagram.com/reel/abc"
SnapchatRefUrl == "snapchat.com/t/abc?ref=tiktok.com"
TwitterWwwUrl == "https://www.x.com/user/status/1"
Urls == {TwitterUrl, TikTokUrl, ShortsUrl, InstagramUrl, SnapchatRefUrl, TwitterWwwUrl}

\* scheme, leading www., trailing slash, query string and fragment removed; lower case
normalizeUrlForComparison(u) ==
  CASE u = TwitterWwwUrl -> "x.com/user/status/1"
    [] u = SnapchatRefUrl -> "snapchat.com/t/abc"
    [] OTHER -> u

\* the host the text starts with (after the optional scheme and www./m./vm. prefix)
leadingHost(u) ==
  CASE u \in {TwitterUrl, TwitterWwwUrl} -> "x.com"
    [] u = TikTokUrl -> "tiktok.com"
    [] u = ShortsUrl -> "youtube.com"
    [] u = InstagramUrl -> "instagram.com"
    [] u = SnapchatRefUrl -> "snapchat.com"
    [] OTHER -> "none"

\* the host names that occur anywhere in the text: host, path or query string
hostsIn(u) ==
  IF u = SnapchatRefUrl THEN {"snapchat.com", "tiktok.com"}
  ELSE IF u = NoUrl THEN {}
  ELSE {leadingHost(u)}

\* detectAllUrls(text, PLATFORM_PATTERNS): the key of the pattern that matched
\* (each pattern starts with its host; the snapchat pattern ends with (?:\?[^\s]*)?,
\* so the match takes the query string along)
PLATFORM_PATTERNS(u) ==
  CASE leadingHost(u) = "tiktok.com" -> "tiktok"
    [] leadingHost(u) = "instagram.com" -> "instagram"
    [] leadingHost(u) = "x.com" -> "twitter"
    [] leadingHost(u) = "youtube.com" -> "youtube"
    [] leadingHost(u) = "snapchat.com" -> "snapchat"
    [] OTHER -> "none"


\* detectPlatform(url): the first host test that passes, 'default' when none does
\* (each test is an unanchored regex on the whole lower-cased text)
detectPlatform(u) ==
  IF "tiktok.com" \in hostsIn(u) THEN "tiktok"
  ELSE IF "instagram.com" \in hostsIn(u) THEN "instagram"
  ELSE IF {"twitter.com", "x.com"} \cap hostsIn(u) # {} THEN "twitter"
  ELSE IF {"youtube.com", "youtu.be"} \cap hostsIn(u) # {} THEN "youtube"
  ELSE IF "snapchat.com" \in hostsIn(u) THEN "snapchat"
  ELSE "default"

\* downloadVideo's catch: the platforms it has a fallback API for (the youtube branch
\* is never reached, the instagram branch needs a RapidAPI key)
hasFallback(pf) == pf = "tiktok" \/ (pf = "instagram" /\ RAPIDAPI_KEY)

\* variant: the fallback's result names no platform
downloadTikTokViaAPI_default == "default"

\* result.platform of downloadTikTokViaAPI's result
downloadTikTokViaAPI == "tiktok"

\* result.platform of downloadInstagramViaAPI's result
downloadInstagramViaAPI == "instagram"

\* the fallback API's result for a link of platform pf
fallbackResult(pf) == IF pf = "tiktok" THEN downloadTikTokViaAPI ELSE downloadInstagramViaAPI

\* ---- files in the temp directory (followed where watched names tempDir) ----
\* a strategy writes its destination file (createWriteStream / yt-dlp -o truncate)
\* now - stats.mtimeMs in minutes, by one value per interval the cleanups tell apart:
\* up to 10 min, up to 30 min, up to 24 h, more
FileAges == <<1, 11, 31, 1441>>

writeFile(dir, tag, by, size) ==
  IF "tempDir" \in watched
  THEN {f \in dir : ~(f.tag = tag /\ f.by = by)}
         \cup {[tag |-> tag, by |-> by, size |-> size, age |-> FileAges[1]]}
  ELSE dir

\* cleanupOldFiles(maxAgeHours), the age limit given in minutes: age > maxAge is unlinked
cleanupOldFiles(dir, maxAgeMinutes) == {f \in dir : ~(f.age > maxAgeMinutes)}

\* the age a file has some minutes later
olderAge(age) ==
  LET i == CHOOSE k \in 1..Len(FileAges) : FileAges[k] = age
  IN IF i < Len(FileAges) THEN FileAges[i + 1] ELSE age

\* fs.unlink of a strategy's destination file
unlinkFile(dir, tag, by) == {f \in dir : ~(f.tag = tag /\ f.by = by)}

filesOf(dir, tag) == {f \in dir : f.tag = tag}

\* ---- errors an extraction attempt can end with ----
\* text: the signature phrases the lower-cased message / raw output contains
TimeoutError == [isPermanent |-> FALSE, text |-> {"timeout"}]
YtDlp404Error == [isPermanent |-> TRUE, text |-> {"http error 404", "404", "not found"}]
Untagged404Error == [isPermanent |-> FALSE, text |-> {"404"}]
Errors == {TimeoutError, YtDlp404Error, Untagged404Error}

\* ---- what yt-dlp writes to stderr, one 'data' event at a time ----
Http404Chunk == "ERROR: HTTP Error 404: Not Found"
ResetChunk == "ERROR: Connection reset by peer"
UnsupportedChunk == "ERROR: Unsupported URL: https://x.com/i/status/1"
BlankChunk == " "
StderrChunks == {Http404Chunk, ResetChunk, UnsupportedChunk, BlankChunk}

\* errorText.trim()
trim(chunk) == IF chunk = BlankChunk THEN "" ELSE chunk

\* the phrases of the lower-cased text
phrasesOf(output) ==
  IF output = Http404Chunk THEN {"http error 404", "404", "not found"}
  ELSE IF output = ResetChunk THEN {"connection reset"}
  ELSE IF output = UnsupportedChunk THEN {"unsupported url"}
  ELSE {}

permanentErrorPatterns ==
  {"http error 403", "http error 404", "404 not found", "410 gone", "410:",
   "private video", "video unavailable", "not available in your country",
   "sign in to confirm your age", "playback on other websites has been disabled",
   "this live event has ended", "copyright claim", "account is private",
   "video does not exist", "user not found"}

isPermanentYtDlpError(output) ==
  IF output = "" THEN FALSE ELSE permanentErrorPatterns \cap phrasesOf(output) # {}

\* the close handler's error for a code other than 0:
\* buildYtDlpErrorMessage(code, lastYtDlpError), tagged from lastYtDlpError
closeError(last) ==
  [isPermanent |-> isPermanentYtDlpError(last), text |-> phrasesOf(last)]

\* downloadTikTokViaAPI's catch: normalizeApiError(error, 'TikTok API fallback failed')
ApiTimeoutError == [isPermanent |-> FALSE, text |-> {"tiktok api fallback failed", "timeout"}]
Api404Error ==
  [isPermanent |-> TRUE, text |-> {"tiktok api fallback failed", "status 404", "404"}]
ApiErrors == {ApiTimeoutError, Api404Error}

\* downloadInstagramViaAPI's catch: normalizeApiError(error, 'Instagram API fallback failed')
InstagramTimeoutError ==
  [isPermanent |-> FALSE, text |-> {"instagram api fallback failed", "timeout"}]
Instagram404Error ==
  [isPermanent |-> TRUE, text |-> {"instagram api fallback failed", "status 404", "404"}]
InstagramApiErrors == {InstagramTimeoutError, Instagram404Error}

apiErrorsOf(pf) == IF pf = "tiktok" THEN ApiErrors ELSE InstagramApiErrors

\* downloadTikTokViaAPI's size test: 'API download failed - empty file', normalised
ApiEmptyFileError ==
  [isPermanent |-> FALSE,
   text |-> {"tiktok api fallback failed", "api download failed - empty file"}]

\* downloadVideo's tests after yt-dlp has exited with code 0
FileNotFoundError ==
  [isPermanent |-> FALSE, text |-> {"downloaded file not found", "not found"}]
FileEmptyError == [isPermanent |-> FALSE, text |-> {"downloaded file is empty"}]
VerificationErrors == {FileNotFoundError, FileEmptyError}

\* downloadYouTubeViaVidfly finds no video id: 'Invalid YouTube URL', thrown before any I/O
InvalidUrlError == [isPermanent |-> FALSE, text |-> {"invalid youtube url"}]

\* what a throwing store statement reaches the caller with (SqliteError)
StoreWriteError == [isPermanent |-> FALSE, text |-> {"database or disk is full"}]

nonRetryablePatterns ==
  {"unsupported url", "private video", "video unavailable", "video is unavailable",
   "not available", "not found", "404", "403", "410", "removed",
   "no longer available", "forbidden", "suspended", "copyright",
   "account is private", "user not found", "invalid url"}

isRetryableError(error) ==
  IF error.isPermanent THEN FALSE
  ELSE IF error.text = {} THEN TRUE
  ELSE nonRetryablePatterns \cap error.text = {}

\* Math.min(1000 * Math.pow(2, retryCount), 10000)
RECURSIVE Pow2(_)
Pow2(n) == IF n = 0 THEN 1 ELSE 2 * Pow2(n - 1)
Min(a, b) == IF a < b THEN a ELSE b

\* variant: the delay is not capped
backoffDelay_uncapped(rc) == 1000 * Pow2(rc)

backoffDelay(rc) == Min(1000 * Pow2(rc), 10000)

\* ---- persistence service (UPDATE ... WHERE tag = @tag touches existing rows only) ----
saveQueueItem(st, tag) == [st EXCEPT ![tag] = [status |-> "queued", retries |-> 0]]
markAsActive(st, tag) ==
  IF st[tag].status = "absent" THEN st ELSE [st EXCEPT ![tag].status = "downloading"]
markCompleted(st, tag) ==
  IF st[tag].status = "absent" THEN st ELSE [st EXCEPT ![tag].status = "completed"]
markFailed(st, tag) ==
  IF st[tag].status = "absent" THEN st ELSE [st EXCEPT ![tag].status = "failed"]
updateRetryCount(st, tag, n) ==
  IF st[tag].status = "absent" THEN st
  ELSE [st EXCEPT ![tag] = [status |-> "queued", retries |-> n]]

\* rows with status queued/downloading, ORDER BY added_at ASC (tags are handed out in time order)
RECURSIVE pendingFrom(_, _)
pendingFrom(st, t) ==
  IF t \notin Tags THEN <<>>
  ELSE IF st[t].status \in {"queued", "downloading"}
       THEN <<t>> \o pendingFrom(st, t + 1)
       ELSE pendingFrom(st, t + 1)

\* variant: the rows are selected whatever their status
loadPendingItems_anyStatus(st) ==
  SelectSeq([i \in 1..Cardinality(Tags) |-> i], LAMBDA t : st[t].status # "absent")

\* variant: ORDER BY added_at DESC
loadPendingItems_newestFirst(st) ==
  LET items == pendingFrom(st, 1)
  IN [i \in 1..Len(items) |-> items[Len(items) + 1 - i]]

\* variant: only rows with status queued are selected
loadPendingItems_queuedOnly(st) ==
  SelectSeq(pendingFrom(st, 1), LAMBDA t : st[t].status = "queued")

loadPendingItems(st) == pendingFrom(st, 1)

RECURSIVE filterRetries(_, _)
filterRetries(items, st) ==
  IF items = <<>> THEN <<>>
  ELSE IF st[Head(items)].retries < MAX_RETRIES
       THEN <<Head(items)>> \o filterRetries(Tail(items), st)
       ELSE filterRetries(Tail(items), st)

\* ---- Init: a first process start against an empty store ----
Init ==
  /\ MAX_CONCURRENT \in 1..MaxConcurrent
  /\ persistenceEnabled \in BOOLEAN
  /\ queue = <<>>
  /\ activeDownloads = {}
  /\ retryCount = [t \in Tags |-> 0]
  /\ message = [t \in Tags |-> FALSE]
  /\ store = [t \in Tags |-> NoRow]
  /\ isProcessing = FALSE
  /\ pausedForRecovery = FALSE
  /\ queueProcessor = "idle"
  /\ exec = [t \in Tags |-> Idle]
  /\ retryTimers = {}
  /\ emitted = [t \in Tags |-> NoEvents]
  /\ tagCount = 0
  /\ ret = "none"
  /\ waitingBehind = [t \in Tags |-> {}]
  /\ resumeStage = "notReady"
  /\ unresolved = <<>>
  /\ shutdownStage = "none"
  /\ restarts = 0
  /\ syncFailing = {}
  /\ writeFails = FALSE
  /\ cleared = {}
  /\ url = [t \in Tags |-> NoUrl]
  /\ RAPIDAPI_KEY = FALSE
  /\ tempDir = {}
  /\ allStderr = [t \in Tags |-> <<>>]
  /\ lastYtDlpError = [t \in Tags |-> ""]
  /\ processingUrls = {}
  /\ invocations = [t \in Tags |-> 0]
  /\ lastStrategyError = [t \in Tags |-> NoError]
  /\ lastProgress = [t \in Tags |-> 0]
  /\ forwarded = [t \in Tags |-> <<>>]
  /\ videoInfo = [t \in Tags |-> NoVideoInfo]
  /\ withoutIds = {}
  /\ watched = {}

\* ---- scheduling pass ----
\* a timer, I/O or signal callback runs only between passes: the pass is a chain of
\* promise reactions, which Node drains before it takes the next callback
MacroTask == queueProcessor = "idle" /\ shutdownStage # "exited"

\* variant: the pause flag is not tested
processQueue_ignoresPause(paused) ==
  IF isProcessing
  THEN UNCHANGED <<isProcessing, queueProcessor>>
  ELSE isProcessing' = TRUE /\ queueProcessor' = "scheduled"

\* processQueue(): the synchronous part (guard and flag)
processQueue(paused) ==
  IF paused \/ isProcessing
  THEN UNCHANGED <<isProcessing, queueProcessor>>
  ELSE isProcessing' = TRUE /\ queueProcessor' = "scheduled"

\* variant: the item is started whether or not it has a message
startDownload_noMessageTest(s, tag) ==
  [s EXCEPT !.active = @ \cup {tag},
            !.store = IF persistenceEnabled THEN markAsActive(@, tag) ELSE @,
            !.emitted[tag].start = @ + 1,
            !.exec[tag] = [Idle EXCEPT !.stage = "extracting"]]

\* startDownload(item) applied to the collections s the pass is working on
startDownload(s, tag) ==
  IF ~message[tag]
  THEN [s EXCEPT !.store = IF persistenceEnabled /\ ~writeFails
                           THEN markFailed(@, tag) ELSE @]
  ELSE IF persistenceEnabled /\ writeFails
  THEN \* markAsActive throws after activeDownloads.set: nothing is emitted
       [s EXCEPT !.active = @ \cup {tag}]
  ELSE [s EXCEPT !.active = @ \cup {tag},
                 !.store = IF persistenceEnabled THEN markAsActive(@, tag) ELSE @,
                 !.emitted[tag].start = @ + 1,
                 !.exec[tag] = [Idle EXCEPT !.stage = "extracting"]]

\* variant: the slot test admits one job too many
slotFree_offByOne(act) == Cardinality(act) <= MAX_CONCURRENT

\* while (queue.length > 0 && activeDownloads.size < MAX_CONCURRENT)
slotFree(act) == Cardinality(act) < MAX_CONCURRENT

RECURSIVE drainLoop(_)
drainLoop(s) ==
  IF Len(s.queue) > 0 /\ slotFree(s.active)
  THEN drainLoop(startDownload([s EXCEPT !.queue = Tail(@)], Head(s.queue)))
  ELSE s

\* a call of downloadVideo(url, {retries: 0}) gets past the YouTube branch and runs
\* yt-dlp for t: the handler's call or the next iteration of retryWithBackoff
primaryStarts(t) ==
  /\ exec'[t].stage = "extracting"
  /\ exec[t].stage # "extracting" \/ exec'[t].i # exec[t].i
  /\ detectPlatform(url[t]) # "youtube"

countInvocations ==
  invocations' = [t \in Tags |->
                    IF "invocations" \in watched /\ primaryStarts(t) THEN invocations[t] + 1
                    ELSE invocations[t]]

\* the .then callback of the queueProcessor chain
processQueueDrain ==
  /\ queueProcessor = "scheduled"
  /\ shutdownStage # "exited"
  /\ LET s == drainLoop([queue |-> queue, active |-> activeDownloads, store |-> store,
                         emitted |-> emitted, exec |-> exec])
     IN /\ queue' = s.queue
        /\ activeDownloads' = s.active
        /\ store' = s.store
        /\ emitted' = s.emitted
        /\ exec' = s.exec
        /\ waitingBehind' = [t \in Tags |->
                               IF s.emitted[t].start > emitted[t].start
                               THEN {} ELSE waitingBehind[t]]
  /\ queueProcessor' = "finishing"
  /\ countInvocations
  /\ ret' = "none"
  /\ UNCHANGED <<MAX_CONCURRENT, withoutIds, videoInfo, lastProgress, forwarded, lastStrategyError, watched, processingUrls, allStderr, lastYtDlpError, RAPIDAPI_KEY, tempDir, url, cleared, writeFails, syncFailing, persistenceEnabled, retryCount, message, isProcessing,
                 pausedForRecovery, retryTimers, tagCount, resumeStage,
                 unresolved, shutdownStage, restarts>>

\* the .finally callback of the queueProcessor chain
processQueueFinally ==
  /\ queueProcessor = "finishing"
  /\ shutdownStage # "exited"
  /\ \A t \in syncFailing : exec[t].stage # "extracting"
  /\ isProcessing' = FALSE
  /\ queueProcessor' = "idle"
  /\ ret' = "none"
  /\ UNCHANGED <<MAX_CONCURRENT, withoutIds, videoInfo, lastProgress, forwarded, lastStrategyError, watched, invocations, processingUrls, allStderr, lastYtDlpError, RAPIDAPI_KEY, tempDir, url, cleared, writeFails, syncFailing, waitingBehind, persistenceEnabled, queue, activeDownloads, retryCount,
                 message, store, pausedForRecovery, exec, retryTimers, emitted,
                 tagCount, resumeStage, unresolved, shutdownStage, restarts>>

\* ---- admission ----
\* variants: the bound admits one job too many / is not tested at all
queueIsFull_offByOne(q) == Len(q) > MAX_QUEUE_SIZE
queueIsFull_never(q) == FALSE

\* if (this.queue.length >= CONFIG.DOWNLOAD.MAX_QUEUE_SIZE) return false
queueIsFull(q) == Len(q) >= MAX_QUEUE_SIZE

\* variant: the new item is put at the head
enqueue_atHead(q, tag) == <<tag>> \o q

\* this.queue.push(queueItem)
enqueue(q, tag) == Append(q, tag)

\* queue:added events emitted so far (the admissions the model follows)
admissions == Cardinality({t \in Tags : emitted[t].added > 0})

\* addToQueue(downloadInfo) for a message with the link u
addToQueueOf(u) ==
  /\ MacroTask
  /\ resumeStage # "notReady"
  /\ IF queueIsFull(queue)
     THEN /\ ret' = "false"
          /\ UNCHANGED <<queue, retryCount, message, store, emitted, tagCount,
                         isProcessing, queueProcessor, syncFailing, url>>
     ELSE /\ admissions < MaxJobs
          /\ LET tag == tagCount + 1 IN
             /\ queue' = enqueue(queue, tag)
             /\ retryCount' = [retryCount EXCEPT ![tag] = 0]
             /\ message' = [message EXCEPT ![tag] = TRUE]
             /\ store' = IF persistenceEnabled /\ ~writeFails  \* a failed insert is caught
                         THEN saveQueueItem(store, tag) ELSE store
             /\ emitted' = [emitted EXCEPT ![tag].added = @ + 1]
             /\ tagCount' = tag
             /\ url' = [url EXCEPT ![tag] = u]
             /\ syncFailing' = IF u = ShortsUrl THEN syncFailing \cup {tag}
                                ELSE syncFailing
          /\ processQueue(pausedForRecovery)
          /\ ret' = "true"
  /\ UNCHANGED <<MAX_CONCURRENT, withoutIds, videoInfo, lastProgress, forwarded, lastStrategyError, watched, invocations, allStderr, lastYtDlpError, RAPIDAPI_KEY, tempDir, cleared, writeFails, waitingBehind, persistenceEnabled, activeDownloads, pausedForRecovery,
                 exec, retryTimers, resumeStage, unresolved, shutdownStage,
                 restarts>>

\* a message with a link that only yt-dlp handles (BotState's duplicate filter is
\* followed in DedupSpec; elsewhere every message carries a link not posted before)
addToQueue == addToQueueOf(TwitterUrl) /\ UNCHANGED processingUrls

\* a message with a link for yt-dlp or for the YouTube API client
addAnyToQueue ==
  /\ \E u \in {TwitterUrl, ShortsUrl} : addToQueueOf(u)
  /\ UNCHANGED processingUrls

\* a message with a TikTok or an Instagram link
addMediaLinkToQueue ==
  /\ admissions < MaxExecJobs
  /\ \E u \in {TikTokUrl, InstagramUrl} : addToQueueOf(u)
  /\ UNCHANGED processingUrls

\* a message with a link whose yt-dlp run is followed chunk by chunk
addWatchedLinkToQueue ==
  /\ admissions < MaxStderrJobs
  /\ \E u \in {TwitterUrl, TikTokUrl, SnapchatRefUrl} : addToQueueOf(u)
  /\ UNCHANGED processingUrls

\* a message with a link whose strategies' errors are followed
addStrategyLinkToQueue ==
  /\ admissions < MaxStrategyJobs
  /\ \E u \in {TwitterUrl, TikTokUrl} : addToQueueOf(u)
  /\ UNCHANGED processingUrls

\* a message with a link whose download progress is followed
addProgressLinkToQueue ==
  /\ admissions < MaxProgressJobs
  /\ addToQueueOf(TwitterUrl)
  /\ UNCHANGED processingUrls

\* a message with a link whose metadata probe is followed
addProbedLinkToQueue ==
  /\ admissions < MaxProbeJobs
  /\ \E u \in {TwitterUrl, TikTokUrl} : addToQueueOf(u)
  /\ UNCHANGED processingUrls

\* a message with a link, in a run that recovers rows of an earlier run
addToRecoveredQueue ==
  /\ admissions < MaxRehydrateJobs
  /\ addToQueueOf(TwitterUrl)
  /\ UNCHANGED processingUrls

\* a message with a link, in a run whose guards respond
addGuardedToQueue ==
  /\ admissions < MaxGuardJobs
  /\ addToQueueOf(TwitterUrl)
  /\ UNCHANGED processingUrls

\* a message with a link, in a run that is restarted
addRestartableToQueue ==
  /\ admissions < MaxRestartJobs
  /\ addToQueueOf(TwitterUrl)
  /\ UNCHANGED processingUrls

\* a message with a link of a platform with or without a fallback API
addLinkToQueue ==
  /\ \E u \in {TwitterUrl, TikTokUrl} : addToQueueOf(u)
  /\ UNCHANGED processingUrls

\* ---- BotState: the links being processed ----
BotState_isProcessing(pu, u) ==
  \E entry \in pu : entry.url = normalizeUrlForComparison(u) /\ ~entry.old

stopProcessing(pu, u) == {entry \in pu : entry.url # normalizeUrlForComparison(u)}

startProcessing(pu, u) ==
  stopProcessing(pu, u) \cup {[url |-> normalizeUrlForComparison(u), old |-> FALSE]}

\* the download:process handler has returned for tag: both of its ends call
\* botState.stopProcessing(url)
handlerEnds(tag) ==
  processingUrls' = IF exec'[tag].stage = "idle"
                     THEN stopProcessing(processingUrls, url[tag])
                     ELSE processingUrls

\* client.on('messageCreate') for a message with the link u, posted at most MaxPosts times
messageCreate(u) ==
  IF BotState_isProcessing(processingUrls, u)
  THEN \* 'Already processing': the link is filtered out
       /\ MacroTask
       /\ resumeStage # "notReady"
       /\ ret' = "skipped"
       /\ UNCHANGED <<MAX_CONCURRENT, withoutIds, videoInfo, lastProgress, forwarded, lastStrategyError, watched, invocations, processingUrls, allStderr, lastYtDlpError,
                      RAPIDAPI_KEY, tempDir, url, cleared, writeFails, syncFailing,
                      waitingBehind, persistenceEnabled, queue, activeDownloads,
                      retryCount, message, store, isProcessing, pausedForRecovery,
                      queueProcessor, exec, retryTimers, emitted, tagCount,
                      resumeStage, unresolved, shutdownStage, restarts>>
  ELSE /\ admissions < MaxPosts
       /\ addToQueueOf(u)
       /\ processingUrls' = IF queueIsFull(queue)
                            THEN stopProcessing(processingUrls, u)
                            ELSE startProcessing(processingUrls, u)

postLink == \E u \in {TwitterUrl, TwitterWwwUrl} : messageCreate(u)

\* more than 10 s have passed since startProcessing set the entry
tenSecondsPass ==
  /\ MacroTask
  /\ \E entry \in processingUrls :
       /\ ~entry.old
       /\ processingUrls' = (processingUrls \ {entry}) \cup {[entry EXCEPT !.old = TRUE]}
  /\ ret' = "none"
  /\ UNCHANGED <<MAX_CONCURRENT, withoutIds, videoInfo, lastProgress, forwarded, lastStrategyError, watched, invocations, allStderr, lastYtDlpError,
                 RAPIDAPI_KEY, tempDir, url, cleared, writeFails, syncFailing,
                 waitingBehind, persistenceEnabled, queue, activeDownloads,
                 retryCount, message, store, isProcessing, pausedForRecovery,
                 queueProcessor, exec, retryTimers, emitted, tagCount,
                 resumeStage, unresolved, shutdownStage, restarts>>

\* startProcessing's setTimeout fires after 30 s and deletes the entry
autoCleanup ==
  /\ MacroTask
  /\ \E entry \in processingUrls :
       /\ entry.old
       /\ processingUrls' = processingUrls \ {entry}
  /\ ret' = "none"
  /\ UNCHANGED <<MAX_CONCURRENT, withoutIds, videoInfo, lastProgress, forwarded, lastStrategyError, watched, invocations, allStderr, lastYtDlpError,
                 RAPIDAPI_KEY, tempDir, url, cleared, writeFails, syncFailing,
                 waitingBehind, persistenceEnabled, queue, activeDownloads,
                 retryCount, message, store, isProcessing, pausedForRecovery,
                 queueProcessor, exec, retryTimers, emitted, tagCount,
                 resumeStage, unresolved, shutdownStage, restarts>>

\* ---- completion and failure ----
\* completeDownload(tag, result), called by the download:process handler
completeDownload(tag) ==
  IF tag \notin activeDownloads
  THEN UNCHANGED <<store, activeDownloads, emitted, isProcessing, queueProcessor>>
  ELSE /\ store' = IF persistenceEnabled THEN markCompleted(store, tag) ELSE store
       /\ activeDownloads' = activeDownloads \ {tag}
       /\ emitted' = [emitted EXCEPT ![tag].complete = @ + 1]
       /\ processQueue(pausedForRecovery)

\* variant: the cap test lets a job at the cap retry once more
shouldRetry_offByOne(rc, error) == rc <= MAX_RETRIES /\ isRetryableError(error)

\* retryCount < MAX_RETRIES && isRetryableError(error)
shouldRetry(rc, error) == rc < MAX_RETRIES /\ isRetryableError(error)

\* the collection changes of the retry branch (none: the entry stays in activeDownloads)
activeAfterRetry(act, tag) == act

\* variant: the retry branch emits download:error as well
eventsAfterRetry_emitsError(ev, tag) == [ev EXCEPT ![tag].error = @ + 1]

\* the events of the retry branch (none: emit is called in the final branch only)
eventsAfterRetry(ev, tag) == ev

\* handleDownloadError(item, error)
handleDownloadError(tag, error) ==
  IF persistenceEnabled /\ writeFails
  THEN \* updateRetryCount / markFailed throws: the rest of the branch is skipped
       /\ retryCount' = IF shouldRetry(retryCount[tag], error)
                        THEN [retryCount EXCEPT ![tag] = @ + 1] ELSE retryCount
       /\ UNCHANGED <<store, retryTimers, activeDownloads, waitingBehind, emitted,
                      isProcessing, queueProcessor>>
  ELSE IF shouldRetry(retryCount[tag], error)
  THEN /\ retryCount' = [retryCount EXCEPT ![tag] = @ + 1]
       /\ store' = IF persistenceEnabled
                   THEN updateRetryCount(store, tag, retryCount[tag] + 1) ELSE store
       /\ retryTimers' = retryTimers \cup
                           {[tag |-> tag, delay |-> backoffDelay(retryCount[tag])]}
       /\ activeDownloads' = activeAfterRetry(activeDownloads, tag)
       /\ waitingBehind' = [waitingBehind EXCEPT
                              ![tag] = {b \in SeqToSet(queue) : emitted[b].start = 0}]
       /\ emitted' = eventsAfterRetry(emitted, tag)
       /\ UNCHANGED <<isProcessing, queueProcessor>>
  ELSE /\ store' = IF persistenceEnabled THEN markFailed(store, tag) ELSE store
       /\ activeDownloads' = activeDownloads \ {tag}
       /\ emitted' = [emitted EXCEPT ![tag].error = @ + 1]
       /\ processQueue(pausedForRecovery)
       /\ UNCHANGED <<retryCount, retryTimers, waitingBehind>>

\* variant: the retried item is put at the tail
reinsert_atTail(q, tag) == Append(q, tag)

\* variant: the retried item is inserted twice
reinsert_twice(q, tag) == <<tag, tag>> \o q

\* where the retry timer puts the item: queue.unshift(item)
reinsert(q, tag) == <<tag>> \o q

\* the setTimeout callback of the retry branch
retryTimerFiresFor(t) ==
  /\ MacroTask
  /\ t \in retryTimers
  /\ queue' = reinsert(queue, t.tag)
  /\ retryTimers' = retryTimers \ {t}
  /\ processQueue(pausedForRecovery)
  /\ ret' = "none"
  /\ UNCHANGED <<MAX_CONCURRENT, withoutIds, videoInfo, lastProgress, forwarded, lastStrategyError, watched, invocations, processingUrls, allStderr, lastYtDlpError, RAPIDAPI_KEY, tempDir, url, cleared, writeFails, syncFailing, waitingBehind, persistenceEnabled, activeDownloads,
                 retryCount, message, store, pausedForRecovery, exec, emitted, tagCount,
                 resumeStage, unresolved, shutdownStage, restarts>>

retryTimerFires == \E t \in retryTimers : retryTimerFiresFor(t)

\* ---- the download:process handler (bot.js) and the downloader's retry loop ----
\* a strategy call for tag has thrown error (followed where watched names it)
strategyThrows(tag, error) ==
  lastStrategyError' = IF "lastStrategyError" \in watched
                        THEN [lastStrategyError EXCEPT ![tag] = error]
                        ELSE lastStrategyError

\* retryWithBackoff: for (i = 0; i < maxRetries; i++), maxRetries = MAX_RETRIES;
\* after a failed call of fn it calls fn again while another iteration is left
loopContinues(i, error) == i + 1 < MAX_RETRIES

\* an attempt's yt-dlp download has failed with error: downloadVideo's catch
primaryFailed(tag, error) ==
  IF hasFallback(detectPlatform(url[tag]))
  THEN \* downloadVideo's catch calls the fallback API
       /\ exec' = [exec EXCEPT ![tag].stage = "fallback", ![tag].lastError = error]
       /\ UNCHANGED <<retryCount, store, retryTimers, activeDownloads, emitted,
                      isProcessing, queueProcessor, waitingBehind>>
  ELSE IF loopContinues(exec[tag].i, error)
  THEN /\ exec' = [exec EXCEPT ![tag].i = @ + 1, ![tag].lastError = error]
       /\ UNCHANGED <<retryCount, store, retryTimers, activeDownloads, emitted,
                      isProcessing, queueProcessor, waitingBehind>>
  ELSE /\ exec' = [exec EXCEPT ![tag] = Idle]
       /\ handleDownloadError(tag, error)

\* ---- the metadata probe: getVideoInfo(url, {tag}) ----
\* how yt-dlp --dump-json under promiseTimeout ends: JSON with or without an uploader
\* field, a non-zero exit, the INFO_TIMEOUT
ProbeOutcomes == {"ok", "okNoUploader", "failed", "timedOut"}

ProbeError == [isPermanent |-> FALSE, text |-> {"video info retrieval timed out"}]

\* variant: the catch rethrows
getVideoInfo_rethrows(u, outcome) ==
  IF outcome = "ok" THEN [threw |-> FALSE, uploader |-> "uploader", url |-> u]
  ELSE IF outcome = "okNoUploader" THEN [threw |-> FALSE, uploader |-> "unknown_user", url |-> u]
  ELSE [threw |-> TRUE, uploader |-> "", url |-> "none"]

\* the metadata getVideoInfo returns: from the JSON, or the basic metadata of its catch
getVideoInfo(u, outcome) ==
  IF outcome = "ok" THEN [threw |-> FALSE, uploader |-> "uploader", url |-> u]
  ELSE IF outcome = "okNoUploader" THEN [threw |-> FALSE, uploader |-> "unknown_user", url |-> u]
  ELSE [threw |-> FALSE, uploader |-> "unknown_user", url |-> u]

\* downloadVideo's 'await this.getVideoInfo(url, {tag})' is over (it stands inside
\* downloadVideo's try: a throw would reach the catch like a failed yt-dlp run)
getVideoInfoReturnsFor(tag) ==
  /\ MacroTask
  /\ tag \notin syncFailing
  /\ exec[tag].stage = "extracting"
  /\ videoInfo[tag].probe = "none"
  /\ \E outcome \in ProbeOutcomes :
       LET metadata == getVideoInfo(url[tag], outcome) IN
       IF metadata.threw
       THEN /\ primaryFailed(tag, ProbeError)
            /\ strategyThrows(tag, ProbeError)
            /\ UNCHANGED videoInfo
       ELSE /\ videoInfo' = [videoInfo EXCEPT
                               ![tag] = [probe |-> outcome, uploader |-> metadata.uploader,
                                         url |-> metadata.url]]
            /\ UNCHANGED <<exec, retryCount, store, retryTimers, activeDownloads, emitted,
                           isProcessing, queueProcessor, waitingBehind, lastStrategyError>>
  /\ ret' = "none"
  /\ handlerEnds(tag)
  /\ countInvocations
  /\ UNCHANGED <<MAX_CONCURRENT, withoutIds, lastProgress, forwarded, watched, allStderr, lastYtDlpError,
                 RAPIDAPI_KEY, tempDir, url, cleared, writeFails, syncFailing,
                 persistenceEnabled, queue, message, pausedForRecovery, tagCount,
                 resumeStage, unresolved, shutdownStage, restarts>>

getVideoInfoReturns == \E tag \in Tags : getVideoInfoReturnsFor(tag)

\* yt-dlp is run for the download once getVideoInfo has returned (followed where watched
\* names videoInfo)
probeDone(tag) == "videoInfo" \in watched => videoInfo[tag].probe # "none"

\* the metadata goes into the result of a call that succeeds; the next call probes again
videoInfoAtEnd(tag) ==
  videoInfo' = IF "videoInfo" \in watched /\ exec'[tag].stage # "delivering"
               THEN [videoInfo EXCEPT ![tag] = NoVideoInfo]
               ELSE videoInfo

\* ---- progress: what yt-dlp writes to stdout, one 'data' event at a time ----
DestinationChunk == "[download] Destination: video.mp4"
StdoutChunks == {"[0.0%]", "[25.0%]", "[99.0%]", "[99.5%]", "[100%]", DestinationChunk}

\* output.match(/\[(\d+\.?\d*)%\]/)
progressMatch(output) == output # DestinationChunk

\* parseFloat(progressMatch[1]), in tenths of one percent
parseFloat(output) ==
  CASE output = "[0.0%]" -> 0
    [] output = "[25.0%]" -> 250
    [] output = "[99.0%]" -> 990
    [] output = "[99.5%]" -> 995
    [] output = "[100%]" -> 1000

\* variant: the value is forwarded as it is
clampProgress_none(progress) == progress

\* Math.min(progress, 99)
clampProgress(progress) == Min(progress, 990)

\* ytDlp.stdout.on('data')
stdoutDataFor(tag) ==
  /\ MacroTask
  /\ tag \notin syncFailing
  /\ exec[tag].stage = "extracting"
  /\ \E output \in StdoutChunks :
       IF progressMatch(output) /\ parseFloat(output) > lastProgress[tag]
       THEN /\ lastProgress' = [lastProgress EXCEPT ![tag] = parseFloat(output)]
            /\ forwarded' = [forwarded EXCEPT
                               ![tag] = Append(@, clampProgress(parseFloat(output)))]
       ELSE UNCHANGED <<lastProgress, forwarded>>
  /\ ret' = "none"
  /\ UNCHANGED <<MAX_CONCURRENT, withoutIds, videoInfo, lastStrategyError, watched, invocations, processingUrls, allStderr,
                 lastYtDlpError, RAPIDAPI_KEY, tempDir, url, cleared, writeFails,
                 syncFailing, persistenceEnabled, queue, message, pausedForRecovery,
                 tagCount, resumeStage, unresolved, shutdownStage, restarts, exec,
                 retryCount, store, retryTimers, activeDownloads, emitted,
                 isProcessing, queueProcessor, waitingBehind>>

stdoutData == \E tag \in Tags : stdoutDataFor(tag)

\* the yt-dlp run of a downloadVideo call is over: after the file tests the call hands
\* 100 to onProgress; the next call starts with its own lastProgress = 0
progressAtEnd(tag) ==
  /\ lastProgress' = [lastProgress EXCEPT ![tag] = 0]
  /\ forwarded' = [forwarded EXCEPT
                     ![tag] = IF "onProgress" \notin watched THEN @
                              ELSE IF exec'[tag].stage = "delivering" THEN Append(@, 1000)
                              ELSE <<>>]

\* one call of downloadVideo(url, {retries: 0}) made by the loop ends
extractorReturnsFor(tag) ==
  /\ MacroTask
  /\ tag \notin syncFailing
  /\ exec[tag].stage = "extracting"
  /\ \/ /\ exec' = [exec EXCEPT ![tag] = [Idle EXCEPT !.stage = "delivering",
                                                       !.result = detectPlatform(url[tag]),
                                                       !.via = "yt-dlp"]]
        /\ tempDir' = writeFile(tempDir, tag, "yt-dlp", 1)
        /\ UNCHANGED <<retryCount, store, retryTimers, activeDownloads, emitted,
                       isProcessing, queueProcessor, waitingBehind, lastStrategyError>>
     \/ \E error \in Errors :
          /\ primaryFailed(tag, error)
          /\ strategyThrows(tag, error)
          /\ tempDir' = unlinkFile(tempDir, tag, "yt-dlp")
  /\ ret' = "none"
  /\ handlerEnds(tag)
  /\ countInvocations
  /\ progressAtEnd(tag)
  /\ probeDone(tag)
  /\ videoInfoAtEnd(tag)
  /\ UNCHANGED <<MAX_CONCURRENT, withoutIds, watched, allStderr, lastYtDlpError, RAPIDAPI_KEY, url, cleared, writeFails, syncFailing, persistenceEnabled, queue, message, pausedForRecovery,
                 tagCount, resumeStage, unresolved, shutdownStage, restarts>>

extractorReturns == \E tag \in Tags : extractorReturnsFor(tag)

\* ytDlp.stderr.on('data'): a chunk arrives while yt-dlp runs
stderrDataFor(tag) ==
  /\ MacroTask
  /\ tag \notin syncFailing
  /\ exec[tag].stage = "extracting"
  /\ Len(allStderr[tag]) < MaxChunks
  /\ \E errorText \in StderrChunks :
       /\ allStderr' = [allStderr EXCEPT ![tag] = Append(@, errorText)]
       /\ lastYtDlpError' = IF trim(errorText) # ""
                             THEN [lastYtDlpError EXCEPT ![tag] = trim(errorText)]
                             ELSE lastYtDlpError
  /\ ret' = "none"
  /\ UNCHANGED <<MAX_CONCURRENT, withoutIds, videoInfo, lastProgress, forwarded, lastStrategyError, watched, invocations, processingUrls, RAPIDAPI_KEY, tempDir, url, cleared, writeFails,
                 syncFailing, persistenceEnabled, queue, message, pausedForRecovery,
                 tagCount, resumeStage, unresolved, shutdownStage, restarts, exec,
                 retryCount, store, retryTimers, activeDownloads, emitted,
                 isProcessing, queueProcessor, waitingBehind>>

stderrData == \E tag \in Tags : stderrDataFor(tag)

\* ytDlp.on('close', code): yt-dlp has exited by itself or was killed by execFile's
\* timeout (code null); both reach the same handler
ytDlpClosesFor(tag) ==
  /\ MacroTask
  /\ tag \notin syncFailing
  /\ exec[tag].stage = "extracting"
  /\ \E code \in {0, 1} :
       IF code = 0
       THEN /\ exec' = [exec EXCEPT ![tag] = [Idle EXCEPT !.stage = "delivering",
                                                            !.result = detectPlatform(url[tag]),
                                                            !.via = "yt-dlp"]]
            /\ tempDir' = writeFile(tempDir, tag, "yt-dlp", 1)
            /\ UNCHANGED <<retryCount, store, retryTimers, activeDownloads, emitted,
                           isProcessing, queueProcessor, waitingBehind, lastStrategyError>>
       ELSE /\ primaryFailed(tag, closeError(lastYtDlpError[tag]))
            /\ strategyThrows(tag, closeError(lastYtDlpError[tag]))
            /\ tempDir' = unlinkFile(tempDir, tag, "yt-dlp")
  /\ allStderr' = [allStderr EXCEPT ![tag] = <<>>]
  /\ lastYtDlpError' = [lastYtDlpError EXCEPT ![tag] = ""]
  /\ ret' = "none"
  /\ handlerEnds(tag)
  /\ countInvocations
  /\ progressAtEnd(tag)
  /\ probeDone(tag)
  /\ videoInfoAtEnd(tag)
  /\ UNCHANGED <<MAX_CONCURRENT, withoutIds, watched, RAPIDAPI_KEY, url, cleared, writeFails, syncFailing,
                 persistenceEnabled, queue, message, pausedForRecovery, tagCount,
                 resumeStage, unresolved, shutdownStage, restarts>>

ytDlpCloses == \E tag \in Tags : ytDlpClosesFor(tag)

\* yt-dlp exits with code 0 but the destination file is missing or empty: the tests
\* after the download throw, the catch deletes the file if it is there
extractorLeavesNoFileFor(tag) ==
  /\ MacroTask
  /\ tag \notin syncFailing
  /\ exec[tag].stage = "extracting"
  /\ \E error \in VerificationErrors :
       primaryFailed(tag, error) /\ strategyThrows(tag, error)
  /\ tempDir' = unlinkFile(tempDir, tag, "yt-dlp")
  /\ ret' = "none"
  /\ handlerEnds(tag)
  /\ countInvocations
  /\ progressAtEnd(tag)
  /\ probeDone(tag)
  /\ videoInfoAtEnd(tag)
  /\ UNCHANGED <<MAX_CONCURRENT, withoutIds, watched, allStderr, lastYtDlpError, RAPIDAPI_KEY, url, cleared, writeFails, syncFailing,
                 persistenceEnabled, queue, message, pausedForRecovery, tagCount,
                 resumeStage, unresolved, shutdownStage, restarts>>

extractorLeavesNoFile == \E tag \in Tags : extractorLeavesNoFileFor(tag)

\* a call of the fallback API has failed with apiError
fallbackFailed(tag, apiError) ==
  IF exec[tag].stage = "fallback"
  THEN \* the attempt fails with the API's error
       /\ exec' = IF loopContinues(exec[tag].i, apiError)
                   THEN [exec EXCEPT ![tag].stage = "extracting", ![tag].i = @ + 1,
                                     ![tag].lastError = apiError]
                   ELSE [exec EXCEPT ![tag].stage = "lastResort",
                                     ![tag].lastError = apiError]
       /\ UNCHANGED <<retryCount, store, retryTimers, activeDownloads, emitted,
                      isProcessing, queueProcessor, waitingBehind>>
  ELSE \* throw error: the error the loop gave up with
       /\ exec' = [exec EXCEPT ![tag] = Idle]
       /\ handleDownloadError(tag, exec[tag].lastError)

\* the fallback API call returns a result
fallbackSucceeded(tag) ==
  /\ exec' = [exec EXCEPT ![tag] =
                [Idle EXCEPT !.stage = "delivering",
                             !.result = fallbackResult(detectPlatform(url[tag])),
                             !.via = "api"]]
  /\ UNCHANGED <<retryCount, store, retryTimers, activeDownloads, emitted,
                 isProcessing, queueProcessor, waitingBehind>>

\* a call of the platform's fallback API ends: the one made by downloadVideo's catch
\* for the attempt (stage fallback), or the one made by downloadWithRetry's catch after
\* the loop has given up (stage lastResort)
fallbackReturnsFor(tag) ==
  /\ MacroTask
  /\ exec[tag].stage \in {"fallback", "lastResort"}
  /\ \/ /\ fallbackSucceeded(tag)
        /\ tempDir' = writeFile(tempDir, tag, "api", 1)
        /\ UNCHANGED lastStrategyError
     \/ \E apiError \in apiErrorsOf(detectPlatform(url[tag])) :
          /\ fallbackFailed(tag, apiError)
          /\ strategyThrows(tag, apiError)
          /\ tempDir' = tempDir
  /\ ret' = "none"
  /\ handlerEnds(tag)
  /\ countInvocations
  /\ UNCHANGED <<MAX_CONCURRENT, withoutIds, videoInfo, lastProgress, forwarded, watched, allStderr, lastYtDlpError, RAPIDAPI_KEY, url, cleared, writeFails, syncFailing, persistenceEnabled,
                 queue, message, pausedForRecovery, tagCount, resumeStage, unresolved,
                 shutdownStage, restarts>>

fallbackReturns == \E tag \in Tags : fallbackReturnsFor(tag)

\* the media URL the fallback API resolved answers with an empty body: the write
\* stream finishes with a file of size 0. downloadTikTokViaAPI tests the size and
\* throws; downloadInstagramViaAPI returns statSync's size as it is
fallbackWritesEmptyFor(tag) ==
  /\ MacroTask
  /\ exec[tag].stage \in {"fallback", "lastResort"}
  /\ tempDir' = writeFile(tempDir, tag, "api", 0)
  /\ IF detectPlatform(url[tag]) = "tiktok"
     THEN fallbackFailed(tag, ApiEmptyFileError) /\ strategyThrows(tag, ApiEmptyFileError)
     ELSE fallbackSucceeded(tag) /\ UNCHANGED lastStrategyError
  /\ ret' = "none"
  /\ handlerEnds(tag)
  /\ countInvocations
  /\ UNCHANGED <<MAX_CONCURRENT, withoutIds, videoInfo, lastProgress, forwarded, watched, allStderr, lastYtDlpError, RAPIDAPI_KEY, url, cleared, writeFails, syncFailing,
                 persistenceEnabled, queue, message, pausedForRecovery, tagCount,
                 resumeStage, unresolved, shutdownStage, restarts>>

fallbackWritesEmpty == \E tag \in Tags : fallbackWritesEmptyFor(tag)

\* downloadVideo rejects without any I/O (YouTube link without a parsable video id):
\* the handler's catch runs among the promise reactions of the pass that started the
\* job, before the pass's .finally
extractorRejectsInPassFor(tag) ==
  /\ queueProcessor = "finishing"
  /\ shutdownStage # "exited"
  /\ tag \in syncFailing
  /\ exec[tag].stage = "extracting"
  /\ exec' = [exec EXCEPT ![tag] = Idle]
  /\ handleDownloadError(tag, InvalidUrlError)
  /\ ret' = "none"
  /\ handlerEnds(tag)
  /\ countInvocations
  /\ UNCHANGED <<MAX_CONCURRENT, withoutIds, videoInfo, lastProgress, forwarded, lastStrategyError, watched, allStderr, lastYtDlpError, RAPIDAPI_KEY, tempDir, url, cleared, writeFails, syncFailing, persistenceEnabled, queue, message,
                 pausedForRecovery, tagCount, resumeStage, unresolved, shutdownStage,
                 restarts>>

extractorRejectsInPass == \E tag \in Tags : extractorRejectsInPassFor(tag)

\* the error of a failed upload to Discord or to a file host
UploadError == [isPermanent |-> FALSE, text |-> {"request entity too large"}]

\* the handler after uploadToDiscord has returned: cleanup, completeDownload
finishDelivery(tag) ==
  IF persistenceEnabled /\ writeFails /\ tag \in activeDownloads
  THEN \* markCompleted throws out of completeDownload into the handler's catch
       handleDownloadError(tag, StoreWriteError)
  ELSE /\ completeDownload(tag)
       /\ UNCHANGED <<retryCount, retryTimers, waitingBehind>>

\* variant: the upload error leaves uploadToDiscord and reaches the handler's catch
uploadErrorSwallowed_rethrown(tag) == handleDownloadError(tag, UploadError)

\* uploadToDiscord's catch: the error is logged and shown, uploadToDiscord returns
uploadErrorSwallowed(tag) == finishDelivery(tag)

\* the upload started by uploadToDiscord ends: it went through, or it threw and
\* sendErrorMessage starts to edit the status message
deliverFor(tag) ==
  /\ MacroTask
  /\ exec[tag].stage = "delivering"
  /\ \/ /\ exec' = [exec EXCEPT ![tag] = Idle]
        /\ tempDir' = unlinkFile(tempDir, tag, exec[tag].via)  \* cleanup(result.path)
        /\ finishDelivery(tag)
     \/ /\ exec' = [exec EXCEPT ![tag].stage = "reporting"]
        /\ UNCHANGED <<store, activeDownloads, emitted, isProcessing, queueProcessor,
                       retryCount, retryTimers, waitingBehind, tempDir>>
  /\ ret' = "none"
  /\ handlerEnds(tag)
  /\ countInvocations
  /\ UNCHANGED <<MAX_CONCURRENT, withoutIds, videoInfo, lastProgress, forwarded, lastStrategyError, watched, allStderr, lastYtDlpError, RAPIDAPI_KEY, url, cleared, writeFails, syncFailing, persistenceEnabled, queue,
                 message, pausedForRecovery, tagCount, resumeStage,
                 unresolved, shutdownStage, restarts>>

deliver == \E tag \in Tags : deliverFor(tag)

\* sendErrorMessage has edited the status message (or failed to): uploadToDiscord returns
reportUploadErrorFor(tag) ==
  /\ MacroTask
  /\ exec[tag].stage = "reporting"
  /\ exec' = [exec EXCEPT ![tag] = Idle]
  /\ tempDir' = unlinkFile(tempDir, tag, exec[tag].via)  \* cleanup(result.path)
  /\ uploadErrorSwallowed(tag)
  /\ ret' = "none"
  /\ handlerEnds(tag)
  /\ countInvocations
  /\ UNCHANGED <<MAX_CONCURRENT, withoutIds, videoInfo, lastProgress, forwarded, lastStrategyError, watched, allStderr, lastYtDlpError, RAPIDAPI_KEY, url, cleared, writeFails, syncFailing, persistenceEnabled, queue,
                 message, pausedForRecovery, tagCount, resumeStage,
                 unresolved, shutdownStage, restarts>>

reportUploadError == \E tag \in Tags : reportUploadErrorFor(tag)

\* ---- the store starts to fail (disk full, database locked or read-only) ----
storeWriteBreaks ==
  /\ MacroTask
  /\ persistenceEnabled
  /\ ~writeFails
  /\ writeFails' = TRUE
  /\ ret' = "none"
  /\ UNCHANGED <<MAX_CONCURRENT, withoutIds, videoInfo, lastProgress, forwarded, lastStrategyError, watched, invocations, processingUrls, allStderr, lastYtDlpError, RAPIDAPI_KEY, tempDir, url, cleared, syncFailing, persistenceEnabled, queue, activeDownloads,
                 retryCount, message, store, isProcessing, pausedForRecovery,
                 queueProcessor, exec, retryTimers, emitted, tagCount, waitingBehind,
                 resumeStage, unresolved, shutdownStage, restarts>>

\* ---- resource guard: MemoryGuard.criticalCleanup / emergencyCleanup -> clearQueue() ----
clearQueue ==
  /\ MacroTask
  /\ resumeStage = "done"
  /\ queue' = <<>>
  /\ cleared' = cleared \cup SeqToSet(queue)
  /\ waitingBehind' = [t \in Tags |->
                         IF t \in SeqToSet(queue) THEN {} ELSE waitingBehind[t]]
  /\ ret' = "none"
  /\ UNCHANGED <<MAX_CONCURRENT, withoutIds, videoInfo, lastProgress, forwarded, lastStrategyError, watched, invocations, processingUrls, allStderr, lastYtDlpError, RAPIDAPI_KEY, tempDir, url, writeFails, syncFailing, persistenceEnabled, activeDownloads, retryCount, message,
                 store, isProcessing, pausedForRecovery, queueProcessor, exec, retryTimers,
                 emitted, tagCount, resumeStage, unresolved, shutdownStage,
                 restarts>>

\* ---- resource guards and the scheduled cleanup ----
\* what a guard's check leaves alone besides the queue and the temp directory
guardFrame ==
  UNCHANGED <<MAX_CONCURRENT, withoutIds, videoInfo, lastProgress, forwarded, lastStrategyError, watched, invocations, processingUrls, allStderr, lastYtDlpError, RAPIDAPI_KEY, url, writeFails, syncFailing, persistenceEnabled, activeDownloads, retryCount, message,
              store, isProcessing, pausedForRecovery, queueProcessor, exec, retryTimers,
              emitted, tagCount, resumeStage, unresolved, shutdownStage, restarts>>

\* variant: the clear spares the job at the head of the queue
guardClearsQueue_sparesHead ==
  LET rest == SubSeq(queue, 2, Len(queue)) IN
  /\ queue' = SubSeq(queue, 1, Min(1, Len(queue)))
  /\ cleared' = cleared \cup SeqToSet(rest)
  /\ waitingBehind' = [t \in Tags |->
                         IF t \in SeqToSet(rest) THEN {} ELSE waitingBehind[t]]

\* downloadManager.clearQueue() called by a guard
guardClearsQueue ==
  /\ queue' = <<>>
  /\ cleared' = cleared \cup SeqToSet(queue)
  /\ waitingBehind' = [t \in Tags |->
                         IF t \in SeqToSet(queue) THEN {} ELSE waitingBehind[t]]

\* MemoryGuard.check() above the warning threshold: preventiveCleanup()
memoryWarning ==
  /\ MacroTask
  /\ resumeStage = "done"
  /\ tempDir' = cleanupOldFiles(tempDir, 10)
  /\ ret' = "memory:warning"
  /\ UNCHANGED <<queue, cleared, waitingBehind>>
  /\ guardFrame

\* MemoryGuard.check() above the critical threshold: criticalCleanup()
memoryCritical ==
  /\ MacroTask
  /\ resumeStage = "done"
  /\ guardClearsQueue
  /\ tempDir' = cleanupOldFiles(tempDir, 0)
  /\ ret' = "memory:critical"
  /\ guardFrame

\* MemoryGuard.check() above the emergency threshold: emergencyCleanup() (the process
\* exits 3 s later)
memoryEmergency ==
  /\ MacroTask
  /\ resumeStage = "done"
  /\ guardClearsQueue
  /\ tempDir' = cleanupOldFiles(tempDir, 0)
  /\ ret' = "memory:emergency"
  /\ guardFrame

\* DiskGuard.check() at the warning level: preventiveCleanup()
diskWarning ==
  /\ MacroTask
  /\ resumeStage = "done"
  /\ tempDir' = cleanupOldFiles(tempDir, 30)
  /\ ret' = "disk:warning"
  /\ UNCHANGED <<queue, cleared, waitingBehind>>
  /\ guardFrame

\* DiskGuard.check() at the critical level: criticalCleanup()
diskCritical ==
  /\ MacroTask
  /\ resumeStage = "done"
  /\ tempDir' = cleanupOldFiles(tempDir, 10)
  /\ ret' = "disk:critical"
  /\ UNCHANGED <<queue, cleared, waitingBehind>>
  /\ guardFrame

\* DiskGuard.check() at the emergency level: emergencyCleanup()
diskEmergency ==
  /\ MacroTask
  /\ resumeStage = "done"
  /\ tempDir' = cleanupOldFiles(tempDir, 0)
  /\ ret' = "disk:emergency"
  /\ UNCHANGED <<queue, cleared, waitingBehind>>
  /\ guardFrame

\* scheduleCleanup's interval callback: cleanupOldFiles(24)
scheduledCleanup ==
  /\ MacroTask
  /\ resumeStage = "done"
  /\ tempDir' = cleanupOldFiles(tempDir, 24 * 60)
  /\ ret' = "cleanup"
  /\ UNCHANGED <<queue, cleared, waitingBehind>>
  /\ guardFrame

\* minutes pass: the files in the temp directory get older
minutesPass ==
  /\ \E f \in tempDir : olderAge(f.age) # f.age
  /\ tempDir' = {[f EXCEPT !.age = olderAge(@)] : f \in tempDir}
  /\ ret' = "none"
  /\ UNCHANGED <<queue, cleared, waitingBehind>>
  /\ guardFrame

\* ---- recovery ----
\* queue.filter(item => !item.message && item.channelId && item.messageId)
RECURSIVE withoutMessage(_)
withoutMessage(q) ==
  IF q = <<>> THEN <<>>
  ELSE IF ~message[Head(q)] /\ Head(q) \notin withoutIds
       THEN <<Head(q)>> \o withoutMessage(Tail(q))
       ELSE withoutMessage(Tail(q))

\* client 'ready' -> resumeFromPersistence(client), up to the first fetch
resumeFromPersistence ==
  /\ MacroTask
  /\ resumeStage = "notReady"
  /\ IF ~pausedForRecovery
     THEN resumeStage' = "done" /\ unresolved' = <<>>
     ELSE resumeStage' = "rehydrating" /\ unresolved' = withoutMessage(queue)
  /\ ret' = "none"
  /\ UNCHANGED <<MAX_CONCURRENT, withoutIds, videoInfo, lastProgress, forwarded, lastStrategyError, watched, invocations, processingUrls, allStderr, lastYtDlpError, RAPIDAPI_KEY, tempDir, url, cleared, writeFails, syncFailing, waitingBehind, persistenceEnabled, queue, activeDownloads, retryCount,
                 message, store, isProcessing, pausedForRecovery, queueProcessor, exec,
                 retryTimers, emitted, tagCount, shutdownStage, restarts>>

\* rehydrateMessages: one iteration of the loop, the fetch succeeds or throws
rehydrateMessages ==
  /\ MacroTask
  /\ resumeStage = "rehydrating"
  /\ unresolved # <<>>
  /\ LET tag == Head(unresolved) IN
       \/ /\ message' = [message EXCEPT ![tag] = TRUE]
          /\ unresolved' = Tail(unresolved)
          /\ UNCHANGED <<queue, store, resumeStage>>
       \/ /\ queue' = SeqFilterOut(queue, tag)
          /\ UNCHANGED message
          /\ IF persistenceEnabled /\ writeFails
             THEN \* markFailed throws out of the loop and out of resumeFromPersistence
                  /\ resumeStage' = "failed"
                  /\ unresolved' = <<>>
                  /\ UNCHANGED store
             ELSE /\ store' = IF persistenceEnabled THEN markFailed(store, tag) ELSE store
                  /\ unresolved' = Tail(unresolved)
                  /\ UNCHANGED resumeStage
  /\ ret' = "none"
  /\ UNCHANGED <<MAX_CONCURRENT, withoutIds, videoInfo, lastProgress, forwarded, lastStrategyError, watched, invocations, processingUrls, allStderr, lastYtDlpError, RAPIDAPI_KEY, tempDir, url, cleared, writeFails, syncFailing, waitingBehind, persistenceEnabled, activeDownloads, retryCount,
                 isProcessing, pausedForRecovery, queueProcessor, exec, retryTimers,
                 emitted, tagCount, shutdownStage, restarts>>

\* resumeFromPersistence after rehydrateMessages: unpause and trigger a pass
resumeFinish ==
  /\ MacroTask
  /\ resumeStage = "rehydrating"
  /\ unresolved = <<>>
  /\ pausedForRecovery' = FALSE
  /\ processQueue(FALSE)
  /\ resumeStage' = "done"
  /\ ret' = "none"
  /\ UNCHANGED <<MAX_CONCURRENT, withoutIds, videoInfo, lastProgress, forwarded, lastStrategyError, watched, invocations, processingUrls, allStderr, lastYtDlpError, RAPIDAPI_KEY, tempDir, url, cleared, writeFails, syncFailing, waitingBehind, persistenceEnabled, queue, activeDownloads, retryCount,
                 message, store, exec, retryTimers, emitted, tagCount,
                 unresolved, shutdownStage, restarts>>

\* ---- shutdown ----
\* shutdown(): pause, empty the queue, start waiting (with an empty Active Set the wait
\* loop is not entered and shutdown returns at once)
shutdown ==
  /\ MacroTask
  /\ shutdownStage = "none"
  /\ pausedForRecovery' = TRUE
  /\ queue' = <<>>
  /\ shutdownStage' = IF activeDownloads = {} THEN "exited" ELSE "draining"
  /\ ret' = "none"
  /\ UNCHANGED <<MAX_CONCURRENT, withoutIds, videoInfo, lastProgress, forwarded, lastStrategyError, watched, invocations, processingUrls, allStderr, lastYtDlpError, RAPIDAPI_KEY, tempDir, url, cleared, writeFails, syncFailing, waitingBehind, persistenceEnabled, activeDownloads, retryCount, message,
                 store, isProcessing, queueProcessor, exec, retryTimers, emitted,
                 tagCount, resumeStage, unresolved, restarts>>

\* variant: the timeout callback leaves the Active Set alone
shutdownForce_noClear ==
  /\ MacroTask
  /\ shutdownStage = "draining"
  /\ activeDownloads # {}
  /\ UNCHANGED vars

\* the 30 s shutdownTimeout callback: activeDownloads.clear()
shutdownForce ==
  /\ MacroTask
  /\ shutdownStage = "draining"
  /\ activeDownloads # {}
  /\ activeDownloads' = {}
  /\ ret' = "none"
  /\ UNCHANGED <<MAX_CONCURRENT, withoutIds, videoInfo, lastProgress, forwarded, lastStrategyError, watched, invocations, processingUrls, allStderr, lastYtDlpError, RAPIDAPI_KEY, tempDir, url, cleared, writeFails, syncFailing, waitingBehind, persistenceEnabled, queue, retryCount, message, store,
                 isProcessing, pausedForRecovery, queueProcessor, exec, retryTimers,
                 emitted, tagCount, resumeStage, unresolved, shutdownStage,
                 restarts>>

\* the wait loop sees an empty Active Set; gracefulShutdown ends with process.exit(0)
shutdownDone ==
  /\ MacroTask
  /\ shutdownStage = "draining"
  /\ activeDownloads = {}
  /\ shutdownStage' = "exited"
  /\ ret' = "none"
  /\ UNCHANGED <<MAX_CONCURRENT, withoutIds, videoInfo, lastProgress, forwarded, lastStrategyError, watched, invocations, processingUrls, allStderr, lastYtDlpError, RAPIDAPI_KEY, tempDir, url, cleared, writeFails, syncFailing, waitingBehind, persistenceEnabled, queue, activeDownloads, retryCount,
                 message, store, isProcessing, pausedForRecovery, queueProcessor, exec,
                 retryTimers, emitted, tagCount, resumeStage, unresolved,
                 restarts>>

\* ---- a new process: constructor + bootstrapFromPersistence ----
\* (after a crash, the memory guard's process.exit(1), or a finished shutdown)
bootstrapFromPersistence ==
  /\ restarts < MaxRestarts
  /\ restarts' = restarts + 1
  /\ persistenceEnabled' = persistenceEnabled
  /\ LET pendingItems == IF persistenceEnabled' THEN loadPendingItems(store) ELSE <<>>
         filteredItems == filterRetries(pendingItems, store)
     IN /\ queue' = filteredItems
        /\ pausedForRecovery' = (Len(filteredItems) > 0)
        /\ retryCount' = [t \in Tags |->
                            IF t \in SeqToSet(filteredItems) THEN store[t].retries ELSE 0]
  /\ message' = [t \in Tags |-> FALSE]
  /\ activeDownloads' = {}
  /\ isProcessing' = FALSE
  /\ queueProcessor' = "idle"
  /\ exec' = [t \in Tags |-> Idle]
  /\ retryTimers' = {}
  /\ resumeStage' = "notReady"
  /\ unresolved' = <<>>
  /\ shutdownStage' = "none"
  /\ ret' = "none"
  /\ waitingBehind' = [t \in Tags |-> {}]
  /\ processingUrls' = {}
  /\ UNCHANGED <<MAX_CONCURRENT, withoutIds, videoInfo, lastProgress, forwarded, lastStrategyError, invocations, watched, allStderr, lastYtDlpError, RAPIDAPI_KEY, tempDir, url, cleared, writeFails, syncFailing, store, emitted, tagCount>>

\* a process started against a store in which an earlier run left non-terminal rows
\* (tags 1..MaxRecovered, retries under the limit): the state after the constructor
RecoveredInit ==
  /\ MAX_CONCURRENT \in 1..MaxConcurrent
  /\ persistenceEnabled = TRUE
  /\ store \in [Tags -> [status : {"absent", "queued", "downloading"},
                         retries : 0..(MAX_RETRIES - 1)]]
  /\ \A t \in Tags : IF t <= MaxRecovered THEN store[t].status # "absent"
                                           ELSE store[t] = NoRow
  /\ syncFailing \in SUBSET (1..MaxRecovered)
  /\ queue = filterRetries(loadPendingItems(store), store)
  /\ pausedForRecovery = (Len(queue) > 0)
  /\ retryCount = [t \in Tags |-> store[t].retries]
  /\ activeDownloads = {}
  /\ message = [t \in Tags |-> FALSE]
  /\ isProcessing = FALSE
  /\ queueProcessor = "idle"
  /\ exec = [t \in Tags |-> Idle]
  /\ retryTimers = {}
  /\ emitted = [t \in Tags |-> NoEvents]
  /\ tagCount = MaxRecovered
  /\ ret = "none"
  /\ waitingBehind = [t \in Tags |-> {}]
  /\ resumeStage = "notReady"
  /\ unresolved = <<>>
  /\ shutdownStage = "none"
  /\ restarts = 0
  /\ writeFails = FALSE
  /\ cleared = {}
  /\ url = [t \in Tags |-> IF t > MaxRecovered THEN NoUrl
                            ELSE IF t \in syncFailing THEN ShortsUrl ELSE TwitterUrl]
  /\ RAPIDAPI_KEY = FALSE
  /\ tempDir = {}
  /\ allStderr = [t \in Tags |-> <<>>]
  /\ lastYtDlpError = [t \in Tags |-> ""]
  /\ processingUrls = {}
  /\ invocations = [t \in Tags |-> 0]
  /\ lastStrategyError = [t \in Tags |-> NoError]
  /\ lastProgress = [t \in Tags |-> 0]
  /\ forwarded = [t \in Tags |-> <<>>]
  /\ videoInfo = [t \in Tags |-> NoVideoInfo]
  /\ withoutIds = {}
  /\ watched = {}

\* ---- specifications ----
\* the scheduler with its handlers: admission, passes, extraction, delivery, retry timers
SchedNext ==
  \/ resumeFromPersistence
  \/ addToQueue
  \/ processQueueDrain
  \/ processQueueFinally
  \/ extractorReturns
  \/ deliver
  \/ reportUploadError
  \/ retryTimerFires

SchedSpec == Init /\ [][SchedNext]_vars

\* the scheduler with the memory guard's queue clear, process restarts and recovery
Next ==
  \/ resumeFromPersistence
  \/ addToQueue
  \/ processQueueDrain
  \/ processQueueFinally
  \/ extractorReturns
  \/ deliver
  \/ reportUploadError
  \/ retryTimerFires
  \/ clearQueue
  \/ rehydrateMessages
  \/ resumeFinish
  \/ bootstrapFromPersistence

Spec == Init /\ [][Next]_vars

\* every extraction attempt returns, every timer fires, every promise reaction runs;
\* no guard clear, crash or shutdown
LiveSpec ==
  /\ SchedSpec
  /\ WF_vars(resumeFromPersistence)
  /\ WF_vars(processQueueDrain)
  /\ WF_vars(processQueueFinally)
  /\ \A tag \in Tags : WF_vars(extractorReturnsFor(tag)) /\ WF_vars(deliverFor(tag))
  /\ \A tag \in Tags : WF_vars(reportUploadErrorFor(tag))
  /\ WF_vars(retryTimerFires)

\* the scheduler of a process that found an earlier run's rows in the store
RecoveryNext ==
  \/ resumeFromPersistence
  \/ rehydrateMessages
  \/ resumeFinish
  \/ addAnyToQueue
  \/ processQueueDrain
  \/ processQueueFinally
  \/ extractorReturns
  \/ extractorRejectsInPass
  \/ deliver
  \/ reportUploadError
  \/ retryTimerFires

RecoverySpec == RecoveredInit /\ [][RecoveryNext]_vars

\* the scheduler with a store whose writes start to fail
FaultNext ==
  \/ resumeFromPersistence
  \/ addToQueue
  \/ processQueueDrain
  \/ processQueueFinally
  \/ extractorReturns
  \/ deliver
  \/ reportUploadError
  \/ retryTimerFires
  \/ storeWriteBreaks

FaultSpec == Init /\ [][FaultNext]_vars

\* the scheduler with links of a platform that has a fallback API
FallbackNext ==
  \/ resumeFromPersistence
  \/ addLinkToQueue
  \/ processQueueDrain
  \/ processQueueFinally
  \/ extractorReturns
  \/ fallbackReturns
  \/ deliver
  \/ reportUploadError
  \/ retryTimerFires

FallbackSpec == Init /\ [][FallbackNext]_vars

\* a process with or without a RapidAPI key
ExecInit ==
  /\ MAX_CONCURRENT \in 1..MaxConcurrent
  /\ persistenceEnabled \in BOOLEAN
  /\ RAPIDAPI_KEY \in BOOLEAN
  /\ queue = <<>>
  /\ activeDownloads = {}
  /\ retryCount = [t \in Tags |-> 0]
  /\ message = [t \in Tags |-> FALSE]
  /\ store = [t \in Tags |-> NoRow]
  /\ isProcessing = FALSE
  /\ pausedForRecovery = FALSE
  /\ queueProcessor = "idle"
  /\ exec = [t \in Tags |-> Idle]
  /\ retryTimers = {}
  /\ emitted = [t \in Tags |-> NoEvents]
  /\ tagCount = 0
  /\ ret = "none"
  /\ waitingBehind = [t \in Tags |-> {}]
  /\ resumeStage = "notReady"
  /\ unresolved = <<>>
  /\ shutdownStage = "none"
  /\ restarts = 0
  /\ syncFailing = {}
  /\ writeFails = FALSE
  /\ cleared = {}
  /\ url = [t \in Tags |-> NoUrl]
  /\ tempDir = {}
  /\ allStderr = [t \in Tags |-> <<>>]
  /\ lastYtDlpError = [t \in Tags |-> ""]
  /\ processingUrls = {}
  /\ invocations = [t \in Tags |-> 0]
  /\ lastStrategyError = [t \in Tags |-> NoError]
  /\ lastProgress = [t \in Tags |-> 0]
  /\ forwarded = [t \in Tags |-> <<>>]
  /\ videoInfo = [t \in Tags |-> NoVideoInfo]
  /\ withoutIds = {}
  /\ watched = {"tempDir"}

\* the scheduler and the executor with every outcome of a strategy: exit codes, API
\* errors, missing and empty destination files
ExecNext ==
  \/ resumeFromPersistence
  \/ addMediaLinkToQueue
  \/ processQueueDrain
  \/ processQueueFinally
  \/ extractorReturns
  \/ extractorLeavesNoFile
  \/ fallbackReturns
  \/ fallbackWritesEmpty
  \/ deliver
  \/ reportUploadError
  \/ retryTimerFires

ExecSpec == ExecInit /\ [][ExecNext]_vars

\* the scheduler and the executor with yt-dlp's stderr followed chunk by chunk
StderrNext ==
  \/ resumeFromPersistence
  \/ addWatchedLinkToQueue
  \/ processQueueDrain
  \/ processQueueFinally
  \/ stderrData
  \/ ytDlpCloses
  \/ fallbackReturns
  \/ deliver
  \/ reportUploadError
  \/ retryTimerFires

StderrSpec == Init /\ [][StderrNext]_vars

\* the scheduler behind BotState's duplicate filter, with the clock of its entries
DedupNext ==
  \/ resumeFromPersistence
  \/ postLink
  \/ tenSecondsPass
  \/ autoCleanup
  \/ processQueueDrain
  \/ processQueueFinally
  \/ extractorReturns
  \/ deliver
  \/ reportUploadError
  \/ retryTimerFires

DedupSpec == Init /\ [][DedupNext]_vars

\* one process in which the runs of yt-dlp are counted per job
InvokeInit ==
  /\ MAX_CONCURRENT \in 1..MaxConcurrent
  /\ persistenceEnabled \in BOOLEAN
  /\ queue = <<>>
  /\ activeDownloads = {}
  /\ retryCount = [t \in Tags |-> 0]
  /\ message = [t \in Tags |-> FALSE]
  /\ store = [t \in Tags |-> NoRow]
  /\ isProcessing = FALSE
  /\ pausedForRecovery = FALSE
  /\ queueProcessor = "idle"
  /\ exec = [t \in Tags |-> Idle]
  /\ retryTimers = {}
  /\ emitted = [t \in Tags |-> NoEvents]
  /\ tagCount = 0
  /\ ret = "none"
  /\ waitingBehind = [t \in Tags |-> {}]
  /\ resumeStage = "notReady"
  /\ unresolved = <<>>
  /\ shutdownStage = "none"
  /\ restarts = 0
  /\ syncFailing = {}
  /\ writeFails = FALSE
  /\ cleared = {}
  /\ url = [t \in Tags |-> NoUrl]
  /\ RAPIDAPI_KEY = FALSE
  /\ tempDir = {}
  /\ allStderr = [t \in Tags |-> <<>>]
  /\ lastYtDlpError = [t \in Tags |-> ""]
  /\ processingUrls = {}
  /\ invocations = [t \in Tags |-> 0]
  /\ lastStrategyError = [t \in Tags |-> NoError]
  /\ lastProgress = [t \in Tags |-> 0]
  /\ forwarded = [t \in Tags |-> <<>>]
  /\ videoInfo = [t \in Tags |-> NoVideoInfo]
  /\ withoutIds = {}
  /\ watched = {"invocations"}

InvokeNext ==
  \/ resumeFromPersistence
  \/ addToQueue
  \/ processQueueDrain
  \/ processQueueFinally
  \/ extractorReturns
  \/ deliver
  \/ reportUploadError
  \/ retryTimerFires

InvokeSpec == InvokeInit /\ [][InvokeNext]_vars

\* the scheduler with graceful shutdown
ShutdownNext ==
  \/ resumeFromPersistence
  \/ addToQueue
  \/ processQueueDrain
  \/ processQueueFinally
  \/ extractorReturns
  \/ deliver
  \/ reportUploadError
  \/ retryTimerFires
  \/ clearQueue
  \/ shutdown
  \/ shutdownForce
  \/ shutdownDone

ShutdownSpec == Init /\ [][ShutdownNext]_vars

\* one process in which the error of each failed strategy call is followed
StrategyInit ==
  /\ MAX_CONCURRENT \in 1..MaxConcurrent
  /\ persistenceEnabled \in BOOLEAN
  /\ queue = <<>>
  /\ activeDownloads = {}
  /\ retryCount = [t \in Tags |-> 0]
  /\ message = [t \in Tags |-> FALSE]
  /\ store = [t \in Tags |-> NoRow]
  /\ isProcessing = FALSE
  /\ pausedForRecovery = FALSE
  /\ queueProcessor = "idle"
  /\ exec = [t \in Tags |-> Idle]
  /\ retryTimers = {}
  /\ emitted = [t \in Tags |-> NoEvents]
  /\ tagCount = 0
  /\ ret = "none"
  /\ waitingBehind = [t \in Tags |-> {}]
  /\ resumeStage = "notReady"
  /\ unresolved = <<>>
  /\ shutdownStage = "none"
  /\ restarts = 0
  /\ syncFailing = {}
  /\ writeFails = FALSE
  /\ cleared = {}
  /\ url = [t \in Tags |-> NoUrl]
  /\ RAPIDAPI_KEY = FALSE
  /\ tempDir = {}
  /\ allStderr = [t \in Tags |-> <<>>]
  /\ lastYtDlpError = [t \in Tags |-> ""]
  /\ processingUrls = {}
  /\ invocations = [t \in Tags |-> 0]
  /\ lastStrategyError = [t \in Tags |-> NoError]
  /\ lastProgress = [t \in Tags |-> 0]
  /\ forwarded = [t \in Tags |-> <<>>]
  /\ videoInfo = [t \in Tags |-> NoVideoInfo]
  /\ withoutIds = {}
  /\ watched = {"lastStrategyError"}

\* the scheduler and the executor for links with and without a fallback API
StrategyNext ==
  \/ resumeFromPersistence
  \/ addStrategyLinkToQueue
  \/ processQueueDrain
  \/ processQueueFinally
  \/ extractorReturns
  \/ fallbackReturns
  \/ deliver
  \/ reportUploadError
  \/ retryTimerFires

StrategySpec == StrategyInit /\ [][StrategyNext]_vars

\* one process in which the progress of each yt-dlp run is followed
ProgressInit ==
  /\ MAX_CONCURRENT \in 1..MaxConcurrent
  /\ persistenceEnabled \in BOOLEAN
  /\ queue = <<>>
  /\ activeDownloads = {}
  /\ retryCount = [t \in Tags |-> 0]
  /\ message = [t \in Tags |-> FALSE]
  /\ store = [t \in Tags |-> NoRow]
  /\ isProcessing = FALSE
  /\ pausedForRecovery = FALSE
  /\ queueProcessor = "idle"
  /\ exec = [t \in Tags |-> Idle]
  /\ retryTimers = {}
  /\ emitted = [t \in Tags |-> NoEvents]
  /\ tagCount = 0
  /\ ret = "none"
  /\ waitingBehind = [t \in Tags |-> {}]
  /\ resumeStage = "notReady"
  /\ unresolved = <<>>
  /\ shutdownStage = "none"
  /\ restarts = 0
  /\ syncFailing = {}
  /\ writeFails = FALSE
  /\ cleared = {}
  /\ url = [t \in Tags |-> NoUrl]
  /\ RAPIDAPI_KEY = FALSE
  /\ tempDir = {}
  /\ allStderr = [t \in Tags |-> <<>>]
  /\ lastYtDlpError = [t \in Tags |-> ""]
  /\ processingUrls = {}
  /\ invocations = [t \in Tags |-> 0]
  /\ lastStrategyError = [t \in Tags |-> NoError]
  /\ lastProgress = [t \in Tags |-> 0]
  /\ forwarded = [t \in Tags |-> <<>>]
  /\ videoInfo = [t \in Tags |-> NoVideoInfo]
  /\ withoutIds = {}
  /\ watched = {"onProgress"}

\* the scheduler and the executor with yt-dlp's progress lines
ProgressNext ==
  \/ resumeFromPersistence
  \/ addProgressLinkToQueue
  \/ processQueueDrain
  \/ processQueueFinally
  \/ stdoutData
  \/ extractorReturns
  \/ deliver
  \/ reportUploadError
  \/ retryTimerFires

ProgressSpec == ProgressInit /\ [][ProgressNext]_vars

\* one process in which the metadata probe of each downloadVideo call is followed
ProbeInit ==
  /\ MAX_CONCURRENT \in 1..MaxConcurrent
  /\ persistenceEnabled \in BOOLEAN
  /\ queue = <<>>
  /\ activeDownloads = {}
  /\ retryCount = [t \in Tags |-> 0]
  /\ message = [t \in Tags |-> FALSE]
  /\ store = [t \in Tags |-> NoRow]
  /\ isProcessing = FALSE
  /\ pausedForRecovery = FALSE
  /\ queueProcessor = "idle"
  /\ exec = [t \in Tags |-> Idle]
  /\ retryTimers = {}
  /\ emitted = [t \in Tags |-> NoEvents]
  /\ tagCount = 0
  /\ ret = "none"
  /\ waitingBehind = [t \in Tags |-> {}]
  /\ resumeStage = "notReady"
  /\ unresolved = <<>>
  /\ shutdownStage = "none"
  /\ restarts = 0
  /\ syncFailing = {}
  /\ writeFails = FALSE
  /\ cleared = {}
  /\ url = [t \in Tags |-> NoUrl]
  /\ RAPIDAPI_KEY = FALSE
  /\ tempDir = {}
  /\ allStderr = [t \in Tags |-> <<>>]
  /\ lastYtDlpError = [t \in Tags |-> ""]
  /\ processingUrls = {}
  /\ invocations = [t \in Tags |-> 0]
  /\ lastStrategyError = [t \in Tags |-> NoError]
  /\ lastProgress = [t \in Tags |-> 0]
  /\ forwarded = [t \in Tags |-> <<>>]
  /\ videoInfo = [t \in Tags |-> NoVideoInfo]
  /\ withoutIds = {}
  /\ watched = {"videoInfo"}

\* the scheduler and the executor with the metadata probe before each yt-dlp download
ProbeNext ==
  \/ resumeFromPersistence
  \/ addProbedLinkToQueue
  \/ processQueueDrain
  \/ processQueueFinally
  \/ getVideoInfoReturns
  \/ extractorReturns
  \/ fallbackReturns
  \/ deliver
  \/ reportUploadError
  \/ retryTimerFires

ProbeSpec == ProbeInit /\ [][ProbeNext]_vars

\* a process started against a store in which an earlier run left non-terminal rows
\* (tags 1..MaxRecovered), some of them without channel or message id: the state after
\* the constructor
RehydrateInit ==
  /\ MAX_CONCURRENT \in 1..MaxConcurrent
  /\ persistenceEnabled = TRUE
  /\ store \in [Tags -> [status : {"absent", "queued", "downloading"},
                         retries : 0..MAX_RETRIES]]
  /\ \A t \in Tags : IF t <= MaxRecovered THEN store[t].status # "absent"
                                           ELSE store[t] = NoRow
  /\ withoutIds \in SUBSET (1..MaxRecovered)
  /\ syncFailing = {}
  /\ queue = filterRetries(loadPendingItems(store), store)
  /\ pausedForRecovery = (Len(queue) > 0)
  /\ retryCount = [t \in Tags |-> IF t \in SeqToSet(queue) THEN store[t].retries ELSE 0]
  /\ activeDownloads = {}
  /\ message = [t \in Tags |-> FALSE]
  /\ isProcessing = FALSE
  /\ queueProcessor = "idle"
  /\ exec = [t \in Tags |-> Idle]
  /\ retryTimers = {}
  /\ emitted = [t \in Tags |-> NoEvents]
  /\ tagCount = MaxRecovered
  /\ ret = "none"
  /\ waitingBehind = [t \in Tags |-> {}]
  /\ resumeStage = "notReady"
  /\ unresolved = <<>>
  /\ shutdownStage = "none"
  /\ restarts = 0
  /\ writeFails = FALSE
  /\ cleared = {}
  /\ url = [t \in Tags |-> IF t > MaxRecovered THEN NoUrl ELSE TwitterUrl]
  /\ RAPIDAPI_KEY = FALSE
  /\ tempDir = {}
  /\ allStderr = [t \in Tags |-> <<>>]
  /\ lastYtDlpError = [t \in Tags |-> ""]
  /\ processingUrls = {}
  /\ invocations = [t \in Tags |-> 0]
  /\ lastStrategyError = [t \in Tags |-> NoError]
  /\ lastProgress = [t \in Tags |-> 0]
  /\ forwarded = [t \in Tags |-> <<>>]
  /\ videoInfo = [t \in Tags |-> NoVideoInfo]
  /\ watched = {}

\* recovery of the rows an earlier run left, new links, and one more restart
RehydrateNext ==
  \/ resumeFromPersistence
  \/ rehydrateMessages
  \/ resumeFinish
  \/ addToRecoveredQueue
  \/ processQueueDrain
  \/ processQueueFinally
  \/ extractorReturns
  \/ deliver
  \/ reportUploadError
  \/ retryTimerFires
  \/ bootstrapFromPersistence

RehydrateSpec == RehydrateInit /\ [][RehydrateNext]_vars

\* one process whose temp directory is followed
GuardInit ==
  /\ MAX_CONCURRENT \in 1..MaxConcurrent
  /\ persistenceEnabled \in BOOLEAN
  /\ queue = <<>>
  /\ activeDownloads = {}
  /\ retryCount = [t \in Tags |-> 0]
  /\ message = [t \in Tags |-> FALSE]
  /\ store = [t \in Tags |-> NoRow]
  /\ isProcessing = FALSE
  /\ pausedForRecovery = FALSE
  /\ queueProcessor = "idle"
  /\ exec = [t \in Tags |-> Idle]
  /\ retryTimers = {}
  /\ emitted = [t \in Tags |-> NoEvents]
  /\ tagCount = 0
  /\ ret = "none"
  /\ waitingBehind = [t \in Tags |-> {}]
  /\ resumeStage = "notReady"
  /\ unresolved = <<>>
  /\ shutdownStage = "none"
  /\ restarts = 0
  /\ syncFailing = {}
  /\ writeFails = FALSE
  /\ cleared = {}
  /\ url = [t \in Tags |-> NoUrl]
  /\ RAPIDAPI_KEY = FALSE
  /\ tempDir = {}
  /\ allStderr = [t \in Tags |-> <<>>]
  /\ lastYtDlpError = [t \in Tags |-> ""]
  /\ processingUrls = {}
  /\ invocations = [t \in Tags |-> 0]
  /\ lastStrategyError = [t \in Tags |-> NoError]
  /\ lastProgress = [t \in Tags |-> 0]
  /\ forwarded = [t \in Tags |-> <<>>]
  /\ videoInfo = [t \in Tags |-> NoVideoInfo]
  /\ withoutIds = {}
  /\ watched = {"tempDir"}

\* the scheduler and the executor with the memory guard, the disk guard and the
\* scheduled cleanup responding while jobs wait and run
GuardNext ==
  \/ resumeFromPersistence
  \/ addGuardedToQueue
  \/ processQueueDrain
  \/ processQueueFinally
  \/ extractorReturns
  \/ deliver
  \/ reportUploadError
  \/ retryTimerFires
  \/ memoryWarning
  \/ memoryCritical
  \/ memoryEmergency
  \/ diskWarning
  \/ diskCritical
  \/ diskEmergency
  \/ scheduledCleanup
  \/ minutesPass

GuardSpec == GuardInit /\ [][GuardNext]_vars

\* the scheduler over process restarts: admission, passes, extraction, delivery, retry
\* timers, a new process against the store the old one left, recovery
RestartNext ==
  \/ resumeFromPersistence
  \/ rehydrateMessages
  \/ resumeFinish
  \/ addRestartableToQueue
  \/ processQueueDrain
  \/ processQueueFinally
  \/ extractorReturns
  \/ deliver
  \/ reportUploadError
  \/ retryTimerFires
  \/ bootstrapFromPersistence

RestartSpec == Init /\ [][RestartNext]_vars

\* shutdown's timers fire (the 30 s timeout, the 1 s polls of the wait loop) and promise
\* reactions run; a download in flight need not ever return
LiveShutdownSpec ==
  /\ ShutdownSpec
  /\ WF_vars(processQueueDrain)
  /\ WF_vars(processQueueFinally)
  /\ WF_vars(shutdownForce)
  /\ WF_vars(shutdownDone)

TypeOK ==
  /\ MAX_CONCURRENT \in 1..MaxConcurrent
  /\ activeDownloads \subseteq Tags
  /\ SeqToSet(queue) \subseteq Tags
  /\ tagCount \in 0..(MaxRecovered + MaxJobs)

\* ---- vocabulary of the properties ----
Admitted(t) == t <= tagCount
Started(t) == emitted[t].start > 0
Terminal(t) == emitted[t].complete > 0 \/ emitted[t].error > 0
InQueue(t) == t \in SeqToSet(queue)
StartsNow(t) == emitted'[t].start > emitted[t].start
NoFailure == \A t \in Tags : retryCount[t] = 0 /\ emitted[t].error = 0
SameProcess == restarts' = restarts
BoolToNat(b) == IF b THEN 1 ELSE 0

\* the strategy a job's executor is running: downloadVideo sends a youtube link straight
\* to downloadYouTubeViaAPI, every other link to yt-dlp; the catch blocks call the API
strategyOf(t) ==
  IF exec[t].stage = "extracting"
  THEN IF detectPlatform(url[t]) = "youtube" THEN "api" ELSE "yt-dlp"
  ELSE IF exec[t].stage \in {"fallback", "lastResort"} THEN "api"
  ELSE "none"

\* C1: no tag is in the Queue and in the Active Set at the same time.
C1_NoTagInQueueAndActive == SeqToSet(queue) \cap activeDownloads = {}

\* C2: every job that has a store row is in exactly one of Queue, Active Set,
\* terminal status in the store.
C2_ExactlyOnePlace ==
  \A t \in Tags :
    store[t].status # "absent" =>
      BoolToNat(InQueue(t)) + BoolToNat(t \in activeDownloads)
        + BoolToNat(store[t].status \in {"completed", "failed"}) = 1

\* C3: the Active Set never holds more than MAX_CONCURRENT jobs, every job whose
\* handler is running is in it, and a job enters it only when a slot is free; so
\* with a limit of 1 no job is started while another one's handler is still running.
C3_ConcurrencyBounded ==
  /\ [](/\ Cardinality(activeDownloads) <= MAX_CONCURRENT
        /\ \A t \in Tags : exec[t].stage # "idle" => t \in activeDownloads
        /\ Cardinality({t \in Tags : exec[t].stage # "idle"}) <= MAX_CONCURRENT)
  /\ [][/\ ~(activeDownloads' \subseteq activeDownloads)
             => Cardinality(activeDownloads) < MAX_CONCURRENT
        /\ \A t \in Tags :
             (MAX_CONCURRENT = 1 /\ StartsNow(t))
               => \A u \in Tags \ {t} : exec[u].stage = "idle" /\ u \notin activeDownloads']_vars

C3_Witness ==
  /\ Cardinality(activeDownloads) = MAX_CONCURRENT
  /\ Len(queue) > 0
  /\ \A t \in activeDownloads : exec[t].stage # "idle"

\* C4: every admitted job eventually reaches a terminal status (completed or failed).
C4_EventuallyTerminal == \A t \in Tags : Admitted(t) ~> Terminal(t)

\* C5: retryCount starts at 0, changes only by +1 on a failure that is retried, never
\* exceeds MAX_RETRIES; a job at MAX_RETRIES whose handler fails is marked failed and
\* not re-queued.
C5_RetryCountCapped ==
  /\ [](\A t \in Tags : retryCount[t] <= MAX_RETRIES /\ store[t].retries <= MAX_RETRIES)
  /\ [][\A t \in Tags :
          /\ (tagCount' = t /\ tagCount # t) => retryCount'[t] = 0
          /\ SameProcess =>
               /\ retryCount'[t] \in {retryCount[t], retryCount[t] + 1}
               /\ retryCount'[t] = retryCount[t] + 1 =>
                    /\ exec[t].stage \in {"extracting", "lastResort"}
                    /\ exec'[t].stage = "idle"
                    /\ \E tm \in retryTimers' \ retryTimers : tm.tag = t
                    /\ emitted'[t] = emitted[t]
               /\ (exec[t].stage \in {"extracting", "lastResort"} /\ exec'[t].stage = "idle"
                     /\ retryCount[t] = MAX_RETRIES) =>
                    /\ emitted'[t].error = emitted[t].error + 1
                    /\ retryTimers' = retryTimers
                    /\ ~(t \in SeqToSet(queue'))
                    /\ store[t].status # "absent" => store'[t].status = "failed"
          /\ ~SameProcess => retryCount'[t] \in {0, store[t].retries}]_vars

C5_Witness ==
  \E t \in Tags : retryCount[t] = MAX_RETRIES /\ emitted[t].error > 0 /\ ~InQueue(t)

\* C6: a job whose extraction error is permanent gets no further extraction attempt
\* (a further attempt follows only an error classified transient), and retries of
\* transient errors stay within the cap.
C6_PermanentNeverRetried ==
  /\ [](\A t \in Tags : retryCount[t] <= MAX_RETRIES)
  /\ [][\A t \in Tags :
          (exec[t].stage = "extracting" /\ exec'[t].stage = "extracting"
             /\ exec'[t].i > exec[t].i)
            => isRetryableError(exec'[t].lastError)]_vars

\* C7 (as claimed): if A failed transiently while never-attempted B was in the Queue,
\* B's first attempt does not start before A's retry has started.
C7_RetryBeforeQueuedJob ==
  [][\A a \in Tags : \A b \in waitingBehind[a] : StartsNow(b) => StartsNow(a)]_vars

\* C7 (amended): the retry timer puts A at the head of the Queue, ahead of every job
\* waiting there, and a pass starts a job only together with everything ahead of it;
\* so from the timer on A's retry starts no later than any B still queued.
C7_RetryReinsertedAtHead ==
  [][/\ (SameProcess /\ retryTimers' # retryTimers /\ retryTimers' \subseteq retryTimers)
          => \E tm \in retryTimers \ retryTimers' : queue' = <<tm.tag>> \o queue
     /\ \A b \in Tags :
          StartsNow(b) =>
            \A i \in 1..Len(queue) :
              (\E k \in (i + 1)..Len(queue) : queue[k] = b)
                => \E n \in 1..Len(queue) : /\ n >= i
                                            /\ queue' = SubSeq(queue, n + 1, Len(queue))]_vars

C7_Witness ==
  /\ Len(queue) >= 2
  /\ retryCount[queue[1]] > 0
  /\ Started(queue[1])
  /\ ~Started(queue[2])
  /\ restarts = 0

C9_AdmissionContract ==
  [][ret' \in {"true", "false"} =>
       /\ (ret' = "false") <=> (Len(queue) >= MAX_QUEUE_SIZE)
       /\ ret' = "false" =>
            UNCHANGED <<queue, activeDownloads, store, emitted, retryCount, tagCount,
                        retryTimers, exec, isProcessing>>
       /\ ret' = "true" =>
            /\ tagCount' = tagCount + 1
            /\ queue' = Append(queue, tagCount')
            /\ retryCount'[tagCount'] = 0
            /\ emitted'[tagCount'].added = 1
            /\ persistenceEnabled =>
                 store'[tagCount'] = [status |-> "queued", retries |-> 0]
            /\ UNCHANGED <<activeDownloads, exec, retryTimers>>]_vars

C9_Witness == ret = "false" /\ Len(queue) >= MAX_QUEUE_SIZE /\ tagCount < MaxJobs

\* C10 (as claimed): the Queue's length never exceeds MAX_QUEUE_SIZE.
C10_QueueWithinMax == Len(queue) <= MAX_QUEUE_SIZE

\* C10 (amended): an admission never takes the Queue beyond MAX_QUEUE_SIZE: whenever
\* addToQueue accepts a job the Queue it leaves has at most MAX_QUEUE_SIZE entries.
C10_AdmissionWithinMax ==
  [][tagCount' # tagCount => Len(queue') <= MAX_QUEUE_SIZE]_vars

C10_Witness == ret = "true" /\ Len(queue) = MAX_QUEUE_SIZE

\* C11: a fresh process started against a store with non-terminal rows (queued or
\* downloading, retries under the limit) has each such job in the Queue exactly once,
\* in addedAt order, and nothing else.
C11_RecoveryRequeuesAll ==
  [][~SameProcess =>
       /\ \A t \in Tags :
            Cardinality({i \in 1..Len(queue') : queue'[i] = t})
              = IF /\ store[t].status \in {"queued", "downloading"}
                   /\ store[t].retries < MAX_RETRIES
                THEN 1 ELSE 0
       /\ \A i \in 1..Len(queue') : \A j \in 1..Len(queue') :
            i < j => queue'[i] < queue'[j]
       /\ \A t \in SeqToSet(queue') : retryCount'[t] = store[t].retries]_vars

C11_Witness ==
  /\ restarts = 1
  /\ resumeStage = "notReady"
  /\ Len(queue) >= 2
  /\ \E a \in SeqToSet(queue) : store[a].status = "downloading"
  /\ \E b \in SeqToSet(queue) : store[b].status = "queued"

\* C12: a job is started at most once per pop and never while an attempt of the same
\* tag is in flight: a tag appears at most once in the Queue, a queued tag or one
\* awaiting its retry timer has no handler running, and each start finds the tag's
\* handler idle.
C12_NoDoubleStart ==
  /\ [](\A t \in Tags :
          /\ Cardinality({i \in 1..Len(queue) : queue[i] = t}) <= 1
          /\ Cardinality({tm \in retryTimers : tm.tag = t}) <= 1
          /\ (InQueue(t) \/ \E tm \in retryTimers : tm.tag = t)
               => exec[t].stage = "idle"
          /\ ~(InQueue(t) /\ \E tm \in retryTimers : tm.tag = t))
  /\ [][\A t \in Tags :
          StartsNow(t) =>
            /\ exec[t].stage = "idle"
            /\ InQueue(t)
            /\ ~(t \in SeqToSet(queue'))
            /\ emitted'[t].start = emitted[t].start + 1]_vars

C12_Witness ==
  \E t \in Tags :
    /\ emitted[t].start >= 2
    /\ exec[t].stage = "extracting"
    /\ Cardinality(activeDownloads) >= 2

\* C13: a pass trigger is never lost: whenever no pass is in progress and scheduling
\* is not paused, the Queue is empty or the Active Set is at the concurrency limit.
C13_TriggerNotLost ==
  (~isProcessing /\ ~pausedForRecovery)
    => (queue = <<>> \/ Cardinality(activeDownloads) >= MAX_CONCURRENT)

\* C14: after a startup that recovered a job nothing is started until
\* resumeFromPersistence has re-attached the delivery context; when it finishes it
\* lifts the pause and schedules a pass.
C14_PausedUntilResumed ==
  /\ []((pausedForRecovery /\ resumeStage # "done")
          => /\ activeDownloads = {}
             /\ \A t \in Tags : exec[t].stage = "idle"
             /\ ~isProcessing)
  /\ [][/\ (pausedForRecovery /\ resumeStage # "done")
             => \A t \in Tags : ~StartsNow(t)
        /\ (resumeStage = "rehydrating" /\ resumeStage' = "done")
             => /\ unresolved = <<>>
                /\ ~pausedForRecovery'
                /\ isProcessing' /\ queueProcessor' = "scheduled"
        /\ (pausedForRecovery /\ ~pausedForRecovery') => resumeStage' = "done"]_vars

C14_Witness ==
  /\ resumeStage = "done"
  /\ \E t \in 1..MaxRecovered : t \in activeDownloads /\ exec[t].stage = "extracting"
  /\ \E u \in Tags : u > MaxRecovered /\ Started(u)

\* C15: once shutdown has begun addToQueue admits no further job and no job is moved
\* from the Queue to the Active Set.
C15_ShutdownStopsAdmission ==
  [][shutdownStage = "draining" =>
       /\ ret' # "true"
       /\ tagCount' = tagCount
       /\ \A t \in Tags : ~StartsNow(t)
       /\ activeDownloads' \subseteq activeDownloads]_vars

\* C16: shutdown() always finishes: it waits while the Active Set is non-empty, and the
\* timeout force-clears the Active Set when jobs are still in flight, also jobs that
\* never return.
C16_ShutdownFinishes ==
  /\ (shutdownStage = "draining") ~> (shutdownStage = "exited")
  /\ [][/\ (shutdownStage = "draining" /\ shutdownStage' = "exited")
             => activeDownloads = {}
        /\ shutdownStage = "draining" => activeDownloads' \subseteq activeDownloads]_vars

C16_Witness ==
  /\ shutdownStage = "exited"
  /\ activeDownloads = {}
  /\ \E t \in Tags : exec[t].stage = "extracting"

\* C17: a failing store write changes nothing in the job's in-memory lifecycle: a job
\* that enters the Active Set is handed to the executor, a delivered job completes and
\* frees its slot without a retry, a finally failed job is reported and frees its slot,
\* a retried job gets its timer.
C17_StoreFailureSwallowed ==
  [][\A t \in Tags :
       /\ (t \notin activeDownloads /\ t \in activeDownloads')
            => (StartsNow(t) /\ exec'[t].stage = "extracting")
       /\ (exec[t].stage = "delivering" /\ exec'[t].stage = "idle")
            => /\ t \notin activeDownloads'
               /\ emitted'[t].complete = emitted[t].complete + 1
               /\ retryCount'[t] = retryCount[t]
               /\ retryTimers' = retryTimers
       /\ (exec[t].stage = "extracting" /\ exec'[t].stage = "idle")
            => IF retryCount'[t] = retryCount[t]
               THEN t \notin activeDownloads' /\ emitted'[t].error = emitted[t].error + 1
               ELSE \E tm \in retryTimers' \ retryTimers : tm.tag = t]_vars

\* C18: a failed upload of a downloaded artifact never reaches the scheduler as a
\* download failure: nothing is re-queued, retryCount is unchanged, no retry timer is
\* armed, and the job ends completed.
C18_DeliveryFailureNotRetried ==
  /\ [](\A t \in Tags : exec[t].stage = "reporting" => t \in activeDownloads)
  /\ [][\A t \in Tags :
          SameProcess =>
            /\ (exec[t].stage = "delivering" /\ exec'[t].stage = "reporting")
                 => UNCHANGED <<queue, retryCount, retryTimers, emitted,
                                activeDownloads, store>>
            /\ (exec[t].stage = "reporting" /\ exec'[t].stage # "reporting")
                 => /\ exec'[t].stage = "idle"
                    /\ UNCHANGED <<queue, retryCount, retryTimers>>
                    /\ emitted'[t].error = emitted[t].error
                    /\ emitted'[t].complete = emitted[t].complete + 1
                    /\ t \notin activeDownloads'
                    /\ store[t].status # "absent" => store'[t].status = "completed"]_vars

C18_Witness ==
  \E t \in Tags :
    /\ exec[t].stage = "reporting"
    /\ retryCount[t] > 0
    /\ store[t].status = "downloading"

\* C19: a job that a resource guard's queue clear removed from the Queue is never
\* started afterwards, neither in the same process nor after a restart and the
\* recovery that follows it.
C19_ClearedNeverStarted ==
  [][\A t \in cleared : ~StartsNow(t)]_vars

\* C20: when the primary extractor fails for a job whose platform has a fallback and
\* the fallback succeeds, the result carries the job's platform, no retry is counted
\* and no failure is recorded, and the job's handler ends with the job completed.
C20_FallbackSuccessCompletes ==
  /\ [](\A t \in Tags :
          exec[t].via = "api" => exec[t].result = PLATFORM_PATTERNS(url[t]))
  /\ [][\A t \in Tags :
          /\ (exec[t].stage \in {"fallback", "lastResort"} /\ exec'[t].stage = "delivering")
               => /\ exec'[t].via = "api"
                  /\ UNCHANGED <<queue, retryCount, retryTimers, store, emitted,
                                 activeDownloads>>
          /\ (exec[t].via = "api" /\ exec'[t].via = "api")
               => /\ exec'[t].result = exec[t].result
                  /\ retryCount'[t] = retryCount[t]
                  /\ emitted'[t] = emitted[t]
                  /\ store'[t] = store[t]
                  /\ t \in activeDownloads'
                  /\ \A tm \in retryTimers' \ retryTimers : tm.tag # t
          /\ (exec[t].via = "api" /\ exec'[t].via # "api")
               => /\ exec'[t].stage = "idle"
                  /\ t \notin activeDownloads'
                  /\ emitted'[t].complete = emitted[t].complete + 1
                  /\ emitted'[t].error = emitted[t].error
                  /\ retryCount'[t] = retryCount[t]
                  /\ retryTimers' = retryTimers
                  /\ ~InQueue(t)'
                  /\ store[t].status # "absent" => store'[t].status = "completed"]_vars

C20_Witness ==
  \E t \in Tags :
    /\ exec[t].via = "api"
    /\ exec[t].stage = "delivering"
    /\ exec[t].result = "tiktok"
    /\ PLATFORM_PATTERNS(url[t]) = "tiktok"
    /\ retryCount[t] > 0

\* C21: a fallback API runs for a job only after the primary extractor has failed in
\* that execution, and once a strategy has succeeded no further strategy runs.
C21_PrimaryFirst ==
  /\ [](\A t \in Tags : strategyOf(t) = "api" => exec[t].lastError # NoError)
  /\ [][\A t \in Tags :
          (SameProcess /\ exec[t].stage \in {"delivering", "reporting"})
            => strategyOf(t)' = "none"]_vars

\* C22: whenever the executor has returned a result to the handler, the file the
\* result refers to exists in the temp directory and has a size above 0.
C22_SuccessHasFile ==
  \A t \in Tags :
    exec[t].stage = "delivering" =>
      \E f \in tempDir : f.tag = t /\ f.by = exec[t].via /\ f.size > 0

\* C23: when the executor returns a failure no file it wrote for the job remains in
\* the temp directory; when it returns a result exactly one file of the job remains.
C23_FailureLeavesNoFile ==
  [][\A t \in Tags :
       SameProcess =>
         /\ (exec[t].stage \in {"extracting", "lastResort"} /\ exec'[t].stage = "idle")
              => filesOf(tempDir', t) = {}
         /\ (exec[t].stage \in {"extracting", "fallback", "lastResort"}
               /\ exec'[t].stage = "delivering")
              => Cardinality(filesOf(tempDir', t)) = 1]_vars

\* C24: the error a strategy of the executor fails with is tagged permanent exactly
\* when some part of yt-dlp's combined stderr (also what it wrote before the timeout
\* kill) carries a permanent-failure signature, or the fallback API answered with one
\* of the statuses 400, 401, 403, 404, 410, 451; every other failure is transient.
C24_PermanentIffSignature ==
  [][\A t \in Tags :
       /\ (exec[t].stage = "extracting" /\ exec'[t] # exec[t]
              /\ exec'[t].stage \in {"extracting", "fallback"})
            => (exec'[t].lastError.isPermanent
                  <=> permanentErrorPatterns
                        \cap UNION {phrasesOf(allStderr[t][k]) : k \in 1..Len(allStderr[t])}
                      # {})
       /\ (exec[t].stage = "fallback" /\ exec'[t].stage \in {"extracting", "lastResort"})
            => (exec'[t].lastError.isPermanent
                  <=> "status 404" \in exec'[t].lastError.text)]_vars

\* C25: the scheduler's retry decision follows the executor's classification alone: a
\* job that fails with retries remaining is re-queued if and only if the executor did
\* not tag its error permanent.
C25_RetryFollowsClassification ==
  [][\A t \in Tags :
       LET requeued == /\ retryCount'[t] = retryCount[t] + 1
                       /\ \E timer \in retryTimers' \ retryTimers : timer.tag = t
       IN /\ (exec[t].stage = "extracting" /\ exec'[t].stage = "idle"
                 /\ retryCount[t] < MAX_RETRIES)
               => (requeued <=> ~closeError(lastYtDlpError[t]).isPermanent)
          /\ (exec[t].stage = "lastResort" /\ exec'[t].stage = "idle"
                 /\ retryCount[t] < MAX_RETRIES)
               => (requeued <=> ~exec[t].lastError.isPermanent)]_vars

\* C26: download:error is emitted for a job only when the job has failed for good: no
\* retry is scheduled by that step, and the job is never queued, awaiting a retry or
\* running afterwards; a failure that is going to be retried emits no download:error.
C26_ErrorOnlyWhenTerminal ==
  /\ [](\A t \in Tags :
          emitted[t].error > 0 =>
            /\ emitted[t].error = 1
            /\ ~InQueue(t)
            /\ t \notin activeDownloads
            /\ exec[t].stage = "idle"
            /\ \A timer \in retryTimers : timer.tag # t)
  /\ [][\A t \in Tags :
          SameProcess =>
            /\ emitted'[t].error > emitted[t].error
                 => /\ retryCount'[t] = retryCount[t]
                    /\ store[t].status # "absent" => store'[t].status = "failed"
            /\ (\E timer \in retryTimers' \ retryTimers : timer.tag = t)
                 => emitted'[t].error = emitted[t].error]_vars

C26_Witness ==
  \E t \in Tags :
    /\ emitted[t].error = 1
    /\ retryCount[t] > 0
    /\ emitted[t].start = retryCount[t] + 1
    /\ store[t].status = "failed"

\* C27: the platform of a link is a function of the link alone and the two
\* classifiers agree on it: the pattern table at admission and detectPlatform in the
\* executor give every admitted link the same platform, in every state.
C27_SamePlatformEverywhere ==
  \A t \in Tags :
    Admitted(t) /\ url[t] # NoUrl => detectPlatform(url[t]) = PLATFORM_PATTERNS(url[t])

\* C28: a link is not admitted while an earlier job for the same link (equal after
\* normalisation) is still queued, downloading or awaiting its retry; it is admitted
\* again only after the processing of the earlier job has ended.
C28_NoDuplicateAdmission ==
  [][tagCount' = tagCount + 1 =>
       \A t \in 1..tagCount :
         normalizeUrlForComparison(url[t]) = normalizeUrlForComparison(url'[tagCount'])
           => /\ ~InQueue(t)
              /\ exec[t].stage = "idle"
              /\ \A timer \in retryTimers : timer.tag # t]_vars

\* C29: over its life in one process a job's primary extractor runs at most
\* MAX_RETRIES + 1 times: the first attempt and at most MAX_RETRIES retries, the
\* scheduler's re-queues and the downloader's own retry loop counted together.
C29_InvocationsCapped ==
  \A t \in Tags : invocations[t] <= MAX_RETRIES + 1

\* C30: the delay of a retry is min(1000 * 2^retryCount, 10000) ms, retryCount being
\* the number of retries the job has had before; the successive delays of a job never
\* decrease and never exceed 10000 ms.
C30_BackoffDelay ==
  /\ [](\A rc \in 0..MaxExponent :
          /\ backoffDelay(rc) = IF 1000 * Pow2(rc) < 10000 THEN 1000 * Pow2(rc) ELSE 10000
          /\ backoffDelay(rc) <= backoffDelay(rc + 1)
          /\ backoffDelay(rc) <= 10000)
  /\ [][\A timer \in retryTimers' \ retryTimers :
          LET rc == retryCount[timer.tag]
          IN /\ retryCount'[timer.tag] = rc + 1
             /\ timer.delay = IF 1000 * Pow2(rc) < 10000 THEN 1000 * Pow2(rc) ELSE 10000
             /\ timer.delay <= 10000
             /\ rc > 0 => timer.delay >= 1000 * Pow2(rc - 1)]_vars

C30_Witness ==
  \E timer \in retryTimers :
    /\ retryCount[timer.tag] = 2
    /\ timer.delay = 2000
    /\ emitted[timer.tag].start = 2

\* C31: a terminal status is final: once a job's row is completed or failed the row
\* keeps that status, also over a restart, and the job is never in the Queue, never
\* started and never running again.
C31_TerminalIsFinal ==
  /\ [](\A t \in Tags :
          store[t].status \in {"completed", "failed"} =>
            /\ ~InQueue(t)
            /\ exec[t].stage = "idle"
            /\ \A timer \in retryTimers : timer.tag # t)
  /\ [][\A t \in Tags :
          store[t].status \in {"completed", "failed"} =>
            /\ store'[t] = store[t]
            /\ ~StartsNow(t)]_vars

C31_Witness ==
  \E a, b \in Tags :
    /\ store[a].status \in {"completed", "failed"}
    /\ emitted[a].start > 0
    /\ restarts > 0
    /\ exec[b].stage = "extracting"
    /\ retryCount[b] > 0

C33_FileOfActiveJobPresent ==
  \A t \in activeDownloads :
    exec[t].stage = "delivering" =>
      \E f \in tempDir : f.tag = t /\ f.by = exec[t].via

\* C34: a job that ended completed has had exactly one download:complete event and no
\* download:error event, a job that ended failed exactly one download:error event and no
\* download:complete event; no job gets two terminal events.
C34_OneTerminalEvent ==
  \A t \in Tags :
    /\ emitted[t].complete + emitted[t].error <= 1
    /\ store[t].status = "completed" => emitted[t].complete = 1
    /\ store[t].status = "failed" => emitted[t].error = 1

\* C35: when the executor gives up on a job, the error it hands to the scheduler is the
\* error of the strategy call that failed last (the last fallback call, or the last
\* yt-dlp run where the platform has no fallback), and the scheduler's retry decision is
\* taken from that error.
C35_LastStrategyErrorReturned ==
  [][\A t \in Tags :
       (exec[t].stage \in {"extracting", "fallback", "lastResort"} /\ exec'[t].stage = "idle")
         => handleDownloadError(t, lastStrategyError'[t])]_vars

\* C36: within one extraction attempt a value is handed to onProgress only if it is
\* greater than every value seen before in the attempt; what is handed over while yt-dlp
\* runs is at most 99; 100 is handed over only once the file is verified; the values
\* handed over never decrease.
C36_ProgressForwarding ==
  /\ [](\A t \in Tags :
          LET f == forwarded[t] IN
          /\ \A i \in 1..Len(f) : \A j \in 1..Len(f) : i < j => f[i] <= f[j]
          /\ \A i \in 1..Len(f) :
               f[i] > 990 => /\ f[i] = 1000
                             /\ i = Len(f)
                             /\ exec[t].stage \notin {"extracting", "fallback", "lastResort"})
  /\ [][\A t \in Tags :
          (exec'[t].stage = "extracting" /\ forwarded'[t] # forwarded[t] /\ forwarded'[t] # <<>>)
            => /\ lastProgress'[t] > lastProgress[t]
               /\ forwarded'[t] = Append(forwarded[t], Min(lastProgress'[t], 990))]_vars

C36_Witness ==
  \E t \in Tags :
    /\ forwarded[t] = <<250, 990, 990, 1000>>
    /\ exec[t].stage = "delivering"

\* C37: a metadata probe that fails or times out does not fail the job: the probe's end
\* leaves the attempt running, with no retry and no failure recorded, the metadata is the
\* placeholder (uploader unknown_user, the link itself), and the yt-dlp download is run
\* with it.
C37_ProbeFailureTolerated ==
  /\ [](\A t \in Tags :
          videoInfo[t].probe \in {"failed", "timedOut"} =>
            /\ videoInfo[t].uploader = "unknown_user"
            /\ videoInfo[t].url = url[t]
            /\ exec[t].stage \in {"extracting", "delivering", "reporting", "idle"})
  /\ [][\A t \in Tags :
          (exec[t].stage = "extracting" /\ videoInfo[t].probe = "none")
            => /\ exec'[t] = exec[t]
               /\ retryCount'[t] = retryCount[t]
               /\ emitted'[t] = emitted[t]
               /\ store'[t] = store[t]]_vars

C37_Witness ==
  \E t \in Tags :
    /\ videoInfo[t].probe = "timedOut"
    /\ exec[t].stage = "delivering"
    /\ exec[t].via = "yt-dlp"
    /\ retryCount[t] = 0

\* C38: a new process re-queues every row with status queued or downloading whose retry
\* count does not exceed MAX_RETRIES, and drops exactly the rows whose count exceeds it.
C38_DroppedIffOverLimit ==
  [][restarts' = restarts + 1 =>
       \A t \in Tags :
         store[t].status \in {"queued", "downloading"} =>
           ((t \in SeqToSet(queue')) <=> ~(store[t].retries > MAX_RETRIES))]_vars

\* C39: a recovered job without a re-resolved status message (the fetch failed, or its
\* row holds no channel or message id) is never handed to the executor: it is started
\* only with a message, and while it has none it is not running and its row, unless
\* terminal (failed, or completed before the restart) or over the retry limit, is still
\* waiting in the queue; it leaves the queue only as failed.
C39_UnresolvedNeverExecuted ==
  /\ [](\A t \in 1..MaxRecovered :
          ~message[t] =>
            /\ exec[t].stage = "idle"
            /\ t \notin activeDownloads
            /\ (store[t].status \in {"queued", "downloading"}
                  /\ store[t].retries < MAX_RETRIES) => InQueue(t))
  /\ [][\A t \in 1..MaxRecovered : StartsNow(t) => message[t]]_vars

C39_Witness ==
  \E t \in withoutIds :
    /\ resumeStage = "done"
    /\ store[t].status = "failed"
    /\ emitted[t].start = 0
    /\ ~InQueue(t)

\* C40: recovery is idempotent: when the process restarts after a recovery has loaded
\* the queue and before any job was started or dropped, the new recovery loads the same
\* queue (same jobs, same order, same retry counts) and leaves the store as it was.
C40_RecoveryIdempotent ==
  [][(/\ restarts' = restarts + 1
      /\ \A t \in Tags : emitted[t].start = 0 /\ store[t].status # "failed")
       => /\ queue' = queue
          /\ \A t \in SeqToSet(queue) : retryCount'[t] = retryCount[t]
          /\ store' = store]_vars

C40_Witness ==
  /\ restarts = 1
  /\ Len(queue) = 2
  /\ \E t \in SeqToSet(queue) : store[t].status = "downloading" /\ retryCount[t] > 0
  /\ \A t \in Tags : emitted[t].start = 0 /\ store[t].status # "failed"

====
